---- MODULE Spec2Model ----
(***************************************************************************)
(* Verification model of the aries solver core.                            *)
(*   - IncSTN (tnet/src/stn.rs): incremental simple temporal network with  *)
(*     edge interning, Cesta96 propagation, negative cycle extraction and  *)
(*     trail based backtracking.                                           *)
(*   - DiscreteModel (model/src/int_model.rs): integer domains, literal    *)
(*     values and their bindings, with two backtrackable trails.           *)
(*   - Brancher (smt/src/solver/brancher.rs): the queue of the variables   *)
(*     to decide on, restarts, and the trail of the queue.                 *)
(*   - DiffLogicTheory (tnet/src/stn.rs): the network behind the Theory    *)
(*     interface, with the mapping between literals and edges.             *)
(*   - lcp (apps/src/bin/lcp.rs): the chronicle encoder and the driver     *)
(*     that tries growing numbers of action instances.                     *)
(*   - Constraint (planning/src/chronicles/constraints.rs), Watches        *)
(*     (model/src/bounds/watches.rs) and RefPool                           *)
(*     (collections/src/ref_store.rs).                                     *)
(* Each object is one record-valued variable holding the fields of the     *)
(* Rust struct; each method is an operator from the object (and inputs)    *)
(* to the object after the call, and each action applies one method.  A    *)
(* panic ends the run: it is recorded in panic and the object is left as   *)
(* it was before the call.                                                 *)
(* Vectors are sequences: the Rust index i is the TLA+ index i + 1.        *)
(* IncSTN::explanation, internal_propagate_queue and                       *)
(* internal_visited_by_cycle_extraction are scratch buffers that the code  *)
(* clears before every use: the queue and the visited set are values local *)
(* to propagate and extract_cycle_impl here, and the explanation is part   *)
(* of what propagate_all returns.  IncSTN::stats is only printed.          *)
(***************************************************************************)
EXTENDS Integers, Sequences, FiniteSets, TLC

VARIABLES
    stn,               \* the IncSTN object
    ret,               \* what the last call returned to its caller
    panic,             \* "" or the message of the panic that ended the run
    saved,             \* history: observable STN state at each open backtrack point
    issued,            \* history: the edge and the id of the last logged add_edge / add_inactive_edge
    dm,                \* the DiscreteModel object
    debug_assertions,  \* the build: TRUE when debug_assert! is compiled in
    brancher,          \* the Brancher object
    stats,             \* the Stats the solver hands to the brancher
    current_assignment,\* the Assignment the solver hands to the brancher
    enqueued,          \* history: the variables that were handed to Brancher::enqueue
    theory,            \* the DiffLogicTheory object
    model_events,      \* ModelEvents::bool_events: the literals made true since the last propagate
    lcp,               \* the lcp encoder: the FiniteProblem, the policy and what encode returned
    driver,            \* the lcp driver: its options, its loop and the attempts it made
    con,               \* the chronicle Constraint made last, with the call that made it
    watches,           \* the Watches object, with the history of the watches held
    pool               \* the RefPool object

vars == <<stn, ret, panic, saved, issued, dm, debug_assertions, brancher, stats,
          current_assignment, enqueued, theory, model_events, lcp, driver, con, watches,
          pool>>

\* The planner and the containers, which no call of the solver core touches.
Others == <<lcp, driver, con, watches, pool>>

\* ---------------------------------------------------------------- bounds
\* Any caller of IncSTN (SpecSTN).
\* Number of timepoints of the network, origin included.
MaxNodes == 2
\* Number of constraint pairs created through add_edge / add_inactive_edge.
MaxEdges == 2
\* Number of nested backtrack points.
MaxLevel == 2
\* Timepoint bounds are drawn from 0..MaxBound.
MaxBound == 1
\* Edge weights are drawn from -MaxWeight-1 .. MaxWeight (closed under negation).
MaxWeight == 0
\* Number of activations requested by add_edge / mark_active that are on the trail.
MaxMarks == 1
\* The eager caller of IncSTN (SpecEager): timepoints, constraint pairs,
\* activations on the trail, backtrack points, largest timepoint bound.
EagerNodes == 3
EagerEdges == 2
EagerMarks == 2
EagerLevel == 1
EagerBound == 1
\* The eager caller that grows a wider network (SpecWide): timepoints,
\* constraint pairs, largest timepoint bound.
WideNodes == 4
WideEdges == 3
WideBound == 1
\* The caller of DiscreteModel (SpecDM): variables, SAT variables, largest
\* integer, save points.
MaxVars == 2
MaxSatVars == 1
MaxInt == 1
MaxSaved == 1
\* The caller of DiscreteModel that nests save points (SpecDeep).
DeepVars == 1
DeepSaved == 3
MaxExprs == 1
\* The caller of Brancher (SpecBrancher): SAT variables, length of the trail
\* at which enqueue is still called, largest activity that is still bumped
\* (activities start at 1), save points, and the conflicts counted:
\* Stats::num_conflicts grows by ConflictStep up to MaxConflicts.
MaxBVars == 2
MaxInsertions == 2
MaxActivity == 2
MaxBrancherSaved == 1
ConflictStep == 100
MaxConflicts == 100
\* The caller of Brancher that counts conflicts finely (SpecRestart): length
\* of the trail at which enqueue is still called, the step and the bound of
\* Stats::num_conflicts.
RestartInsertions == 1
RestartStep == 25
MaxRestartConflicts == 500
\* The search loop of the solver (SpecSearch): length of the trail at which
\* enqueue is still called, largest activity that is still bumped.
SearchInsertions == 3
SearchActivity == 2
\* The solver that drives DiffLogicTheory (SpecTheory): integer variables,
\* largest constant of an expression, pairs of edges that bind has in the network,
\* pairs of atoms that are bound to a literal, save points.
\* The literals are those of the MaxBVars variables, the bounds of the
\* variables are drawn from 0..MaxBound.
TheoryIVars == 1
MaxShift == 1
TheoryEdges == 1
TheoryBindings == 2
MaxTheorySaved == 1
\* BranchingParams::default().allowed_conflicts
DefaultAllowedConflicts == 100

\* The encoder (SpecEncode): effects and conditions of a problem.
MaxEffects == 3
MaxConditions == 1
\* The support of conditions (SpecSupport): effects and conditions of a problem.
SupportEffects == 2
SupportConditions == 2
\* The symmetry breaking (SpecSymmetry): templates and instances of each.
MaxTemplates == 3
MaxInstances == 2
MaxMinActions == 2
MaxMaxActions == 4
MaxAttempts == 4
MaxSpecTemplates == 2
MaxWatchVars == 2
MaxWatchers == 2
MaxWatchValue == 1
MaxPoolValues == 3

\* const ORIGIN and const HORIZON of lcp.rs
ORIGIN == 0
HORIZON == 999999

Bounds == 0..MaxBound
Weights == (-MaxWeight - 1)..MaxWeight
EagerBounds == 0..EagerBound

\* ------------------------------------------------------- helper operators
Last(s) == s[Len(s)]
Front(s) == SubSeq(s, 1, Len(s) - 1)
Range(s) == {s[i] : i \in 1..Len(s)}
Min2(a, b) == IF a < b THEN a ELSE b
Max2(a, b) == IF a < b THEN b ELSE a

\* ------------------------------------------------------------ Edge, EdgeID
\* Option<EdgeID>::None
None == [base_id |-> -1, negated |-> FALSE]
EdgeID_new(base_id, negated) == [base_id |-> base_id, negated |-> negated]
Edge_new(source, target, weight) == [source |-> source, target |-> target, weight |-> weight]

is_canonical(e) == e.source < e.target \/ (e.source = e.target /\ e.weight >= 0)
is_negated(e) == ~is_canonical(e)
\* The i32 weights of DiffLogicTheory<i32>: the least and the greatest value,
\* and -x and x - W::step() as the machine computes them when overflow is not
\* checked (two's complement); neg_overflows(x) and sub_step_overflows(x)
\* tell when a build that checks overflow panics instead.
W_MAX == 2147483647
W_MIN == -2147483647 - 1
neg_overflows(x) == x = W_MIN
i32_neg(x) == IF neg_overflows(x) THEN W_MIN ELSE -x
sub_step_overflows(x) == x = W_MIN
i32_sub_step(x) == IF sub_step_overflows(x) THEN W_MAX ELSE x - 1
negated(e) == [source |-> e.target, target |-> e.source, weight |-> i32_sub_step(i32_neg(e.weight))]

Constraint_new(active, edge) == [active |-> active, edge |-> edge]

\* new_inactives storing the edge as it was given, whatever its form.
new_inactives_as_given(edge) ==
    [base |-> Constraint_new(FALSE, edge), negated |-> Constraint_new(FALSE, negated(edge))]

new_inactives(edge) ==
    IF is_canonical(edge)
    THEN [base |-> Constraint_new(FALSE, edge), negated |-> Constraint_new(FALSE, negated(edge))]
    ELSE [base |-> Constraint_new(FALSE, negated(edge)), negated |-> Constraint_new(FALSE, edge)]

\* ------------------------------------------------------------ ConstraintDB
\* The HashMap lookup is the set of its entries [k |-> canonical edge, v |-> base id].
lookup_get(lookup, e) ==
    IF \E x \in lookup : x.k = e THEN (CHOOSE x \in lookup : x.k = e).v ELSE -1
lookup_insert(lookup, e, id) == {x \in lookup : x.k # e} \cup {[k |-> e, v |-> id]}
lookup_remove(lookup, e) == {x \in lookup : x.k # e}

\* impl Index<EdgeID> for ConstraintDB
Index(constraints, id) ==
    IF id.negated THEN constraints[id.base_id + 1].negated ELSE constraints[id.base_id + 1].base
\* impl IndexMut<EdgeID>, used only to write the active flag
SetActive(constraints, id, a) ==
    IF id.negated
    THEN [constraints EXCEPT ![id.base_id + 1].negated.active = a]
    ELSE [constraints EXCEPT ![id.base_id + 1].base.active = a]

\* find_existing losing the polarity of the edge it was asked for.
find_existing_unsigned(s, edge) ==
    LET id == lookup_get(s.lookup, IF is_canonical(edge) THEN edge ELSE negated(edge))
    IN IF id = -1 THEN None ELSE EdgeID_new(id, FALSE)

find_existing(s, edge) ==
    IF is_canonical(edge)
    THEN LET id == lookup_get(s.lookup, edge)
         IN IF id = -1 THEN None ELSE EdgeID_new(id, FALSE)
    ELSE LET id == lookup_get(s.lookup, negated(edge))
         IN IF id = -1 THEN None ELSE EdgeID_new(id, TRUE)

\* Returns [created, id, stn]; the debug_assert_eq! of both branches is dbg_ok.
push_edge(s, source, target, weight, hidden) ==
    LET edge == Edge_new(source, target, weight)
        found == find_existing(s, edge)
    IN IF found # None
       THEN [created |-> FALSE, id |-> found, stn |-> s,
             dbg_ok |-> Index(s.constraints, found).edge = edge]
       ELSE LET ci == new_inactives(edge)
                \* hidden is a history annotation: ConstraintPair has no such field
                pair == [base |-> ci.base, negated |-> ci.negated, hidden |-> hidden]
                base_id == Len(s.constraints)
                lk == IF ~hidden THEN lookup_insert(s.lookup, pair.base.edge, base_id)
                      ELSE s.lookup
                cs == Append(s.constraints, pair)
                edge_id == EdgeID_new(base_id, is_negated(edge))
            IN [created |-> TRUE, id |-> edge_id,
                stn |-> [s EXCEPT !.constraints = cs, !.lookup = lk],
                dbg_ok |-> Index(cs, edge_id).edge = edge]

pop_last(s) ==
    IF Len(s.constraints) > 0
    THEN [s EXCEPT !.constraints = Front(@),
                   !.lookup = lookup_remove(@, Last(s.constraints).base.edge)]
    ELSE s

has_edge(s, id) == id.base_id <= Len(s.constraints)

\* ------------------------------------------------------------------ Events
Ev_Level(l) == [type |-> "Level", lvl |-> l]
Ev_NodeReserved == [type |-> "NodeReserved"]
Ev_NodeInitialized(tp) == [type |-> "NodeInitialized", tp |-> tp]
Ev_EdgeAdded == [type |-> "EdgeAdded"]
Ev_NewPendingActivation == [type |-> "NewPendingActivation"]
Ev_EdgeActivated(e) == [type |-> "EdgeActivated", edge |-> e]
Ev_ForwardUpdate(node, d, c) ==
    [type |-> "ForwardUpdate", node |-> node, previous_dist |-> d, previous_cause |-> c]
Ev_BackwardUpdate(node, d, c) ==
    [type |-> "BackwardUpdate", node |-> node, previous_dist |-> d, previous_cause |-> c]

\* ActivationEvent
ToActivate(e) == [type |-> "ToActivate", edge |-> e]
BacktrackPoint(l) == [type |-> "BacktrackPoint", lvl |-> l]

\* ------------------------------------------------------------------ IncSTN
origin == 0
num_nodes(s) == Len(s.active_forward_edges)
lb(s, node) == i32_neg(s.distances[node + 1].backward)
ub(s, node) == s.distances[node + 1].forward
\* fdist reading the wrong field.
fdist_backward(s, n) == s.distances[n + 1].backward
fdist(s, n) == s.distances[n + 1].forward
bdist(s, n) == s.distances[n + 1].backward
active(s, e) == Index(s.constraints, e).active

reserve_timepoint(s) ==
    [s EXCEPT !.active_forward_edges = Append(@, <<>>),
              !.active_backward_edges = Append(@, <<>>),
              !.trail = Append(@, Ev_NodeReserved),
              !.distances = Append(@, [initialized |-> FALSE,
                                       forward |-> 0, forward_cause |-> None,
                                       forward_pending_update |-> FALSE,
                                       backward |-> 0, backward_cause |-> None,
                                       backward_pending_update |-> FALSE])]

\* add_inactive_constraint after its push_edge returned r: if created, the trail entry.
trail_edge_added(r) ==
    [id |-> r.id, created |-> r.created, dbg_ok |-> r.dbg_ok,
     stn |-> IF r.created THEN [r.stn EXCEPT !.trail = Append(@, Ev_EdgeAdded)] ELSE r.stn]

\* Returns [id, created, stn, dbg_ok].
add_inactive_constraint(s, source, target, weight, hidden) ==
    trail_edge_added(push_edge(s, source, target, weight, hidden))

\* mark_active committing the activation at once instead of queueing it.
mark_active_at_once(s, edge) ==
    [s EXCEPT !.constraints = SetActive(@, edge, TRUE),
              !.pending_activations = Append(@, ToActivate(edge)),
              !.trail = Append(@, Ev_NewPendingActivation)]

mark_active(s, edge) ==
    [s EXCEPT !.pending_activations = Append(@, ToActivate(edge)),
              !.trail = Append(@, Ev_NewPendingActivation)]

\* init_timepoint from its first mark_active on, fwd_edge and bwd_edge being
\* what the two add_inactive_constraint returned.
init_distance(fwd_edge, bwd_edge, tp, l, u) ==
    [mark_active(mark_active(bwd_edge.stn, fwd_edge.id), bwd_edge.id)
        EXCEPT !.distances[tp + 1] = [initialized |-> TRUE,
                                      forward |-> u, forward_cause |-> fwd_edge.id,
                                      forward_pending_update |-> FALSE,
                                      backward |-> i32_neg(l), backward_cause |-> bwd_edge.id,
                                      backward_pending_update |-> FALSE],
               !.trail = Append(@, Ev_NodeInitialized(tp))]

\* init_timepoint from its second add_inactive_constraint on.
init_bwd_edge(fwd_edge, tp, l, u) ==
    init_distance(fwd_edge, add_inactive_constraint(fwd_edge.stn, tp, origin, i32_neg(l), TRUE),
                  tp, l, u)

init_timepoint(s, tp, l, u) ==
    init_bwd_edge(add_inactive_constraint(s, origin, tp, u, TRUE), tp, l, u)

add_timepoint(s, l, u) == init_timepoint(reserve_timepoint(s), num_nodes(s), l, u)

IncSTN_new ==
    LET empty == [constraints |-> <<>>, lookup |-> {},
                  active_forward_edges |-> <<>>, active_backward_edges |-> <<>>,
                  distances |-> <<>>, trail |-> <<>>, pending_activations |-> <<>>,
                  internal_propagate_queue |-> <<>>, level |-> 0]
    IN [add_timepoint(empty, 0, 0) EXCEPT !.trail = <<>>]


\* ------------------------------------------------------- cycle extraction
\* Time::saturating_add for the i32 weights of DiffLogicTheory<i32>.
saturating_add(a, b) ==
    IF a > 0 /\ b > 0 THEN (IF a > W_MAX - b THEN W_MAX ELSE a + b)
    ELSE IF a < 0 /\ b < 0 THEN (IF a < W_MIN - b THEN W_MIN ELSE a + b)
    ELSE a + b

\* Iterator::position, 1-based: the first index >= from holding x, 0 when there is none.
RECURSIVE position(_, _, _)
position(seq, from, x) ==
    IF from > Len(seq) THEN 0
    ELSE IF seq[from] = x THEN from
    ELSE position(seq, from + 1, x)

\* First loop of extract_cycle_impl: follows forward causes from culprit.
\* exit is "return" (cycle written), "break" (origin reached) or "panic".
RECURSIVE follow_forward_causes(_, _, _, _, _)
follow_forward_causes(s, culprit, current, expl, visited) ==
    LET vis == visited \cup {current}
        next_constraint_id == s.distances[current + 1].forward_cause
    IN IF next_constraint_id = None
       THEN [exit |-> "panic", explanation |-> expl, visited |-> vis, dbg_ok |-> TRUE]
       ELSE LET next == Index(s.constraints, next_constraint_id).edge.source
                ex == Append(expl, next_constraint_id)
                targets == [i \in 1..Len(ex) |-> Index(s.constraints, ex[i]).edge.target]
                cycle_start == position(targets, 1, next)
            IN IF next = current
               THEN [exit |-> "break", explanation |-> ex, visited |-> vis,
                     dbg_ok |-> current = origin]
               ELSE IF next = culprit
               THEN [exit |-> "return", explanation |-> ex, visited |-> vis, dbg_ok |-> TRUE]
               ELSE IF next = origin
               THEN [exit |-> "break", explanation |-> ex, visited |-> vis, dbg_ok |-> TRUE]
               ELSE IF next \in vis
               THEN IF cycle_start = 0
                    THEN [exit |-> "panic", explanation |-> ex, visited |-> vis, dbg_ok |-> TRUE]
                    ELSE [exit |-> "return", explanation |-> SubSeq(ex, cycle_start, Len(ex)),
                          visited |-> vis, dbg_ok |-> TRUE]
               ELSE follow_forward_causes(s, culprit, next, ex, vis)

\* Second loop of extract_cycle_impl: follows backward causes from culprit.
RECURSIVE follow_backward_causes(_, _, _, _, _, _)
follow_backward_causes(s, culprit, current, expl, visited, added_by_backward_pass) ==
    LET vis == visited \cup {current}
        next_constraint_id == s.distances[current + 1].backward_cause
    IN IF next_constraint_id = None
       THEN [exit |-> "panic", explanation |-> expl, visited |-> vis, dbg_ok |-> TRUE]
       ELSE LET ex == Append(expl, next_constraint_id)
                cur == Index(s.constraints, next_constraint_id).edge.target
                sources == [i \in 1..Len(ex) |-> Index(s.constraints, ex[i]).edge.source]
                cycle_start == position(sources, added_by_backward_pass + 1, cur)
            IN IF cur = origin
               THEN [exit |-> "return", explanation |-> ex, visited |-> vis, dbg_ok |-> TRUE]
               ELSE IF cur = culprit
               THEN [exit |-> "return",
                     explanation |-> SubSeq(ex, added_by_backward_pass + 1, Len(ex)),
                     visited |-> vis, dbg_ok |-> TRUE]
               ELSE IF cur \in vis
               THEN IF cycle_start = 0
                    THEN [exit |-> "panic", explanation |-> ex, visited |-> vis, dbg_ok |-> TRUE]
                    ELSE [exit |-> "return", explanation |-> SubSeq(ex, cycle_start, Len(ex)),
                          visited |-> vis, dbg_ok |-> TRUE]
               ELSE follow_backward_causes(s, culprit, cur, ex, vis, added_by_backward_pass)

\* extract_cycle_impl after its first loop ended as first.
after_forward_causes(s, culprit, first) ==
    IF first.exit # "break" THEN first
    ELSE [follow_backward_causes(s, culprit, culprit, first.explanation, {},
                                 Len(first.explanation))
             EXCEPT !.dbg_ok = @ /\ first.dbg_ok]

extract_cycle_impl(s, culprit) ==
    after_forward_causes(s, culprit, follow_forward_causes(s, culprit, culprit, <<>>, {}))

RECURSIVE SumWeights(_, _)
SumWeights(constraints, cycle) ==
    IF cycle = <<>> THEN 0
    ELSE Index(constraints, Head(cycle)).edge.weight + SumWeights(constraints, Tail(cycle))

\* a + b overflows i32: the build that holds the debug_assert! panics on it.
add_overflows(a, b) == (a > 0 /\ b > 0 /\ a > W_MAX - b) \/ (a < 0 /\ b < 0 /\ a < W_MIN - b)

\* cycle.iter().fold(acc, |acc, eid| acc + weight of eid); 0, which fails the
\* debug_assert!, stands for the panic of a sum that overflows.
RECURSIVE FoldWeights(_, _, _)
FoldWeights(constraints, cycle, acc) ==
    IF cycle = <<>> THEN acc
    ELSE IF add_overflows(acc, Index(constraints, Head(cycle)).edge.weight) THEN 0
    ELSE FoldWeights(constraints, Tail(cycle), acc + Index(constraints, Head(cycle)).edge.weight)

\* extract_cycle after extract_cycle_impl ended as r: the debug_assert! on the sum.
extracted_cycle(s, r) ==
    [explanation |-> r.explanation,
     panic |-> IF r.exit = "panic" THEN "extract_cycle_impl: no cause or no cycle start" ELSE "",
     dbg_ok |-> r.dbg_ok /\ (r.exit = "panic" \/ FoldWeights(s.constraints, r.explanation, 0) < 0)]

\* Returns [explanation, panic, dbg_ok]: the cycle written to self.explanation.
extract_cycle(s, culprit) == extracted_cycle(s, extract_cycle_impl(s, culprit))


\* ------------------------------------------------------------- propagation
\* A propagation in progress: [stn, queue, status, explanation, panic, dbg_ok,
\* target_updated_ub, source_updated_lb]; queue is internal_propagate_queue and
\* status "Inconsistent" is the early return of propagate.

\* return NetworkStatus::Inconsistent(self.extract_cycle(..)), cyc being the cycle
\* extracted from the network s1.
return_inconsistent(st, s1, ok, cyc) ==
    [st EXCEPT !.stn = s1, !.status = "Inconsistent", !.explanation = cyc.explanation,
               !.panic = cyc.panic, !.dbg_ok = @ /\ ok /\ cyc.dbg_ok]

\* for &FwdActive {..} in &self.active_forward_edges[u], from its i-th element on.
RECURSIVE relax_forward(_, _, _, _)
relax_forward(st, u, i, new_edge_target) ==
    LET s == st.stn
        list == s.active_forward_edges[u + 1]
    IN IF i > Len(list) THEN st
       ELSE
         LET target == list[i].target
             weight == list[i].weight
             out_edge == list[i].id
             ok == /\ Index(s.constraints, out_edge).edge = Edge_new(u, target, weight)
                   /\ active(s, out_edge)
             previous == fdist(s, target)
             candidate == saturating_add(fdist(s, u), weight)
             s1 == [s EXCEPT !.trail = Append(@, Ev_ForwardUpdate(target, previous,
                                                  s.distances[target + 1].forward_cause)),
                             !.distances[target + 1].forward = candidate,
                             !.distances[target + 1].forward_cause = out_edge,
                             !.distances[target + 1].forward_pending_update = TRUE]
         IN IF candidate < previous
            THEN IF \/ saturating_add(candidate, bdist(s1, target)) < 0
                    \/ (target = new_edge_target /\ st.target_updated_ub)
                 THEN return_inconsistent(st, s1, ok, extract_cycle(s1, target))
                 ELSE relax_forward(
                        [st EXCEPT !.stn = s1, !.queue = Append(@, target),
                                   !.dbg_ok = @ /\ ok,
                                   !.target_updated_ub = @ \/ target = new_edge_target],
                        u, i + 1, new_edge_target)
            ELSE relax_forward([st EXCEPT !.dbg_ok = @ /\ ok], u, i + 1, new_edge_target)

\* for &BwdActive {..} in &self.active_backward_edges[u], from its i-th element on.
RECURSIVE relax_backward(_, _, _, _)
relax_backward(st, u, i, new_edge_source) ==
    LET s == st.stn
        list == s.active_backward_edges[u + 1]
    IN IF i > Len(list) THEN st
       ELSE
         LET source == list[i].source
             weight == list[i].weight
             in_edge == list[i].id
             ok == /\ Index(s.constraints, in_edge).edge = Edge_new(source, u, weight)
                   /\ active(s, in_edge)
             previous == bdist(s, source)
             candidate == saturating_add(bdist(s, u), weight)
             s1 == [s EXCEPT !.trail = Append(@, Ev_BackwardUpdate(source, previous,
                                                  s.distances[source + 1].backward_cause)),
                             !.distances[source + 1].backward = candidate,
                             !.distances[source + 1].backward_cause = in_edge,
                             !.distances[source + 1].backward_pending_update = TRUE]
         IN IF candidate < previous
            THEN IF \/ saturating_add(candidate, fdist(s1, source)) < 0
                    \/ (source = new_edge_source /\ st.source_updated_lb)
                 THEN return_inconsistent(st, s1, ok, extract_cycle(s1, source))
                 ELSE relax_backward(
                        [st EXCEPT !.stn = s1, !.queue = Append(@, source),
                                   !.dbg_ok = @ /\ ok,
                                   !.source_updated_lb = @ \/ source = new_edge_source],
                        u, i + 1, new_edge_source)
            ELSE relax_backward([st EXCEPT !.dbg_ok = @ /\ ok], u, i + 1, new_edge_source)

RECURSIVE propagate_loop(_, _, _)

\* if self.distances[u].forward_pending_update { for .. }
forward_updates(st, u, new_edge_target) ==
    IF st.stn.distances[u + 1].forward_pending_update
    THEN relax_forward(st, u, 1, new_edge_target) ELSE st

\* if self.distances[u].backward_pending_update { for .. }
backward_updates(st, u, new_edge_source) ==
    IF st.stn.distances[u + 1].backward_pending_update
    THEN relax_backward(st, u, 1, new_edge_source) ELSE st

\* The end of an iteration on u: both pending flags are reset and the loop goes on,
\* unless the backward updates returned Inconsistent.
updates_done(st, u, new_edge_source, new_edge_target) ==
    IF st.status = "Inconsistent" THEN st
    ELSE propagate_loop(
           [st EXCEPT !.stn.distances[u + 1].forward_pending_update = FALSE,
                      !.stn.distances[u + 1].backward_pending_update = FALSE],
           new_edge_source, new_edge_target)

\* An iteration on u after its forward updates ended as st.
forward_updates_done(st, u, new_edge_source, new_edge_target) ==
    IF st.status = "Inconsistent" THEN st
    ELSE updates_done(backward_updates(st, u, new_edge_source),
                      u, new_edge_source, new_edge_target)

\* while let Some(u) = self.internal_propagate_queue.pop_front()
propagate_loop(st, new_edge_source, new_edge_target) ==
    IF st.queue = <<>> THEN st
    ELSE forward_updates_done(
           forward_updates([st EXCEPT !.queue = Tail(@)], Head(st.queue), new_edge_target),
           Head(st.queue), new_edge_source, new_edge_target)

\* propagate returning st: internal_propagate_queue is a field of the network,
\* left as the loop left it.
propagate_returned(st) == [st EXCEPT !.stn.internal_propagate_queue = st.queue]

\* propagate starting from the source of the new edge only.
propagate_from_source(s, new_edge) ==
    LET c == Index(s.constraints, new_edge)
        new_edge_source == c.edge.source
        new_edge_target == c.edge.target
        s1 == [s EXCEPT !.distances[new_edge_source + 1].forward_pending_update = TRUE,
                        !.distances[new_edge_source + 1].backward_pending_update = TRUE]
    IN propagate_returned(
         propagate_loop([stn |-> s1, queue |-> <<new_edge_source>>,
                         status |-> "Consistent", explanation |-> <<>>, panic |-> "",
                         dbg_ok |-> new_edge_source # new_edge_target,
                         target_updated_ub |-> FALSE, source_updated_lb |-> FALSE],
                        new_edge_source, new_edge_target))

\* Returns [stn, status, explanation, panic, dbg_ok, ..].
propagate(s, new_edge) ==
    LET c == Index(s.constraints, new_edge)
        new_edge_source == c.edge.source
        new_edge_target == c.edge.target
        s1 == [s EXCEPT !.distances[new_edge_source + 1].forward_pending_update = TRUE,
                        !.distances[new_edge_source + 1].backward_pending_update = TRUE,
                        !.distances[new_edge_target + 1].forward_pending_update = TRUE,
                        !.distances[new_edge_target + 1].backward_pending_update = TRUE]
    IN propagate_returned(
         propagate_loop([stn |-> s1, queue |-> <<new_edge_source, new_edge_target>>,
                         status |-> "Consistent", explanation |-> <<>>, panic |-> "",
                         dbg_ok |-> new_edge_source # new_edge_target,
                         target_updated_ub |-> FALSE, source_updated_lb |-> FALSE],
                        new_edge_source, new_edge_target))

RECURSIVE propagate_all_loop(_, _)

\* if let NetworkStatus::Inconsistent(explanation) = self.propagate(edge) { return .. },
\* r being what propagate returned.
propagated(r, dbg) ==
    IF r.status = "Inconsistent"
    THEN [stn |-> r.stn, status |-> "Inconsistent", explanation |-> r.explanation,
          panic |-> r.panic, dbg_ok |-> dbg /\ r.dbg_ok]
    ELSE propagate_all_loop(r.stn, dbg /\ r.dbg_ok)

\* while let Some(event) = self.pending_activations.pop_front()
propagate_all_loop(s, dbg) ==
    IF s.pending_activations = <<>>
    THEN [stn |-> s, status |-> "Consistent", explanation |-> <<>>, panic |-> "",
          dbg_ok |-> dbg]
    ELSE
      LET event == Head(s.pending_activations)
          s0 == [s EXCEPT !.pending_activations = Tail(@)]
      IN IF event.type = "BacktrackPoint" THEN propagate_all_loop(s0, dbg)
         ELSE IF event.edge.base_id >= Len(s0.constraints)
         THEN \* self.constraints[edge] of an edge that is not there
              [stn |-> s, status |-> "panic", explanation |-> <<>>,
               panic |-> "index out of bounds", dbg_ok |-> dbg]
         ELSE
           LET edge == event.edge
               c == Index(s0.constraints, edge)
               source == c.edge.source
               target == c.edge.target
               weight == c.edge.weight
               s1 == [s0 EXCEPT
                        !.constraints = SetActive(@, edge, TRUE),
                        !.active_forward_edges[source + 1] =
                            Append(@, [target |-> target, weight |-> weight, id |-> edge]),
                        !.active_backward_edges[target + 1] =
                            Append(@, [source |-> source, weight |-> weight, id |-> edge]),
                        !.trail = Append(@, Ev_EdgeActivated(edge))]
           IN IF source = target
              THEN IF weight < 0
                   THEN [stn |-> s0, status |-> "Inconsistent", explanation |-> <<edge>>,
                         panic |-> "", dbg_ok |-> dbg]
                   ELSE propagate_all_loop(s0, dbg)
              ELSE IF ~c.active
              THEN IF source >= num_nodes(s0) \/ target >= num_nodes(s0)
                   THEN \* self.active_forward_edges[source] of a node that is not there
                        [stn |-> s, status |-> "panic", explanation |-> <<>>,
                         panic |-> "index out of bounds", dbg_ok |-> dbg]
                   ELSE propagated(propagate(s1, edge), dbg)
              ELSE propagate_all_loop(s0, dbg)

\* Returns [stn, status, explanation, panic, dbg_ok].
propagate_all(s) == propagate_all_loop(s, TRUE)

\* ------------------------------------------------------------ backtracking
\* Returns [stn, panic]: the assert! on the pending queue is the panic.
set_backtrack_point(s) ==
    IF s.pending_activations # <<>>
    THEN [stn |-> s, panic |-> "Cannot set a backtrack point if a propagation is pending."]
    ELSE [stn |-> [s EXCEPT !.level = @ + 1,
                            !.pending_activations = Append(@, BacktrackPoint(s.level + 1)),
                            !.trail = Append(@, Ev_Level(s.level + 1))],
          panic |-> ""]

\* while let Some(event) = self.pending_activations.pop_back(); [pending, ok],
\* ok being the assert_eq! on the level of the backtrack point found.
RECURSIVE drop_pending(_, _)
drop_pending(pending, level) ==
    IF pending = <<>> THEN [pending |-> pending, ok |-> TRUE]
    ELSE IF Last(pending).type = "BacktrackPoint"
    THEN [pending |-> Front(pending), ok |-> Last(pending).lvl = level]
    ELSE drop_pending(Front(pending), level)

\* Undoing an event, an activation being removed from the adjacency lists only.
undo_event_keeping_flag(s, ev) ==
    IF ev.type = "NodeReserved"
    THEN [s EXCEPT !.active_forward_edges = Front(@),
                   !.active_backward_edges = Front(@),
                   !.distances = Front(@)]
    ELSE IF ev.type = "NodeInitialized"
    THEN [s EXCEPT !.distances[ev.tp + 1].initialized = FALSE]
    ELSE IF ev.type = "EdgeAdded"
    THEN pop_last(s)
    ELSE IF ev.type = "NewPendingActivation"
    THEN [s EXCEPT !.pending_activations = IF @ = <<>> THEN @ ELSE Front(@)]
    ELSE IF ev.type = "EdgeActivated"
    THEN LET e == Index(s.constraints, ev.edge).edge
         IN [s EXCEPT !.active_forward_edges[e.source + 1] = IF @ = <<>> THEN @ ELSE Front(@),
                      !.active_backward_edges[e.target + 1] = IF @ = <<>> THEN @ ELSE Front(@)]
    ELSE IF ev.type = "ForwardUpdate"
    THEN [s EXCEPT !.distances[ev.node + 1].forward = ev.previous_dist,
                   !.distances[ev.node + 1].forward_cause = ev.previous_cause]
    ELSE [s EXCEPT !.distances[ev.node + 1].backward = ev.previous_dist,
                   !.distances[ev.node + 1].backward_cause = ev.previous_cause]

\* Undoes one trail event (every event but Level).
undo_event(s, ev) ==
    IF ev.type = "NodeReserved"
    THEN [s EXCEPT !.active_forward_edges = Front(@),
                   !.active_backward_edges = Front(@),
                   !.distances = Front(@)]
    ELSE IF ev.type = "NodeInitialized"
    THEN [s EXCEPT !.distances[ev.tp + 1].initialized = FALSE]
    ELSE IF ev.type = "EdgeAdded"
    THEN pop_last(s)
    ELSE IF ev.type = "NewPendingActivation"
    THEN [s EXCEPT !.pending_activations = IF @ = <<>> THEN @ ELSE Front(@)]
    ELSE IF ev.type = "EdgeActivated"
    THEN LET e == Index(s.constraints, ev.edge).edge
         IN [s EXCEPT !.active_forward_edges[e.source + 1] = IF @ = <<>> THEN @ ELSE Front(@),
                      !.active_backward_edges[e.target + 1] = IF @ = <<>> THEN @ ELSE Front(@),
                      !.constraints = SetActive(@, ev.edge, FALSE)]
    ELSE IF ev.type = "ForwardUpdate"
    THEN [s EXCEPT !.distances[ev.node + 1].forward = ev.previous_dist,
                   !.distances[ev.node + 1].forward_cause = ev.previous_cause]
    ELSE [s EXCEPT !.distances[ev.node + 1].backward = ev.previous_dist,
                   !.distances[ev.node + 1].backward_cause = ev.previous_cause]

\* while let Some(ev) = self.trail.pop(); [stn, result], result -1 being None.
RECURSIVE undo_trail(_)
undo_trail(s) ==
    IF s.trail = <<>> THEN [stn |-> s, result |-> -1]
    ELSE LET ev == Last(s.trail)
             s0 == [s EXCEPT !.trail = Front(@)]
         IN IF ev.type = "Level"
            THEN [stn |-> [s0 EXCEPT !.level = @ - 1], result |-> ev.lvl]
            ELSE undo_trail(undo_event(s0, ev))


\* What undo_to_last_backtrack_point returns when its second loop ended as r.
undone(r) == [stn |-> r.stn, result |-> r.result, panic |-> ""]

\* undo_to_last_backtrack_point leaving the queue of pending activations alone.
undo_keeping_pending(s) == undone(undo_trail(s))

\* Returns [stn, result, panic].
undo_to_last_backtrack_point(s) ==
    LET d == drop_pending(s.pending_activations, s.level)
    IN IF ~d.ok
       THEN [stn |-> s, result |-> -1, panic |-> "assertion failed: level == self.level"]
       ELSE undone(undo_trail([s EXCEPT !.pending_activations = d.pending]))


\* ------------------------------------------------ Q, RefMap (aries crates)
\* aries_backtrack::Q, a trail with save points: the events pushed, and the
\* number of events there were at each save_state.
Q_new == [events |-> <<>>, backtrack_points |-> <<>>]
Q_push(q, ev) == [q EXCEPT !.events = Append(@, ev)]
Q_num_saved(q) == Len(q.backtrack_points)
\* Returns [q, level].
Q_save_state(q) ==
    [q |-> [q EXCEPT !.backtrack_points = Append(@, Len(q.events))],
     level |-> Len(q.backtrack_points)]
\* restore_last_with(f): [q, popped], popped being the events handed to f, in
\* the order they are handed (last pushed first).
Q_restore_last(q) ==
    LET n == Last(q.backtrack_points)
    IN [q |-> [events |-> SubSeq(q.events, 1, n), backtrack_points |-> Front(q.backtrack_points)],
        popped |-> [i \in 1..(Len(q.events) - n) |-> q.events[Len(q.events) + 1 - i]]]

\* aries_collections::ref_store::RefMap, as the set of its entries [k, v].
RefMap_contains(m, k) == \E x \in m : x.k = k
RefMap_get(m, k) == (CHOOSE x \in m : x.k = k).v
RefMap_insert(m, k, v) == {x \in m : x.k # k} \cup {[k |-> k, v |-> v]}
RefMap_remove(m, k) == {x \in m : x.k # k}

\* ------------------------------------------------------------ DiscreteModel
\* Lit of aries_sat: a SAT variable and the value the literal gives it.
Lit_new(var, val) == [var |-> var, val |-> val]
Lit_not(lit) == [var |-> lit.var, val |-> ~lit.val]
\* Option<Lit>::None in domains[v].1
NoLit == [var |-> -1, val |-> FALSE]

\* Labels tell the Boolean variables (BVar) from the others.
DiscreteModel_new ==
    [labels |-> <<>>, domains |-> <<>>, trail |-> Q_new, binding |-> {},
     expr_binding |-> {}, values |-> {}, sat_to_int |-> {}, lit_trail |-> Q_new]

\* Returns [dm, id].
new_discrete_var(d, l, u, label) ==
    [dm |-> [d EXCEPT !.labels = Append(@, label),
                      !.domains = Append(@, [lb |-> l, ub |-> u, lit |-> NoLit])],
     id |-> Len(d.domains)]

domain_of(d, var) == d.domains[var + 1]

\* Option<bool> as "none", "true", "false".
value(d, lit) ==
    IF ~RefMap_contains(d.values, lit.var) THEN "none"
    ELSE IF RefMap_get(d.values, lit.var) = lit.val THEN "true" ELSE "false"

\* set, set_lb and set_ub call each other; each returns [dm, panic].  dbg is
\* the build: a debug_assert! that fails panics when dbg is TRUE.
RECURSIVE set(_, _, _)
RECURSIVE set_lb(_, _, _, _)
RECURSIVE set_ub(_, _, _, _)

set_lb(d, var, new_lb, dbg) ==
    LET prev == d.domains[var + 1].lb
        d1 == [d EXCEPT !.domains[var + 1].lb = new_lb,
                        !.trail = Q_push(@, [var |-> var, ev |-> "NewLB",
                                             prev |-> prev, new |-> new_lb])]
        lit == d.domains[var + 1].lit
    IN IF prev < new_lb
       THEN IF lit # NoLit
            THEN IF dbg /\ ~(new_lb = 1 /\ prev = 0)
                 THEN [dm |-> d1, panic |-> "assertion failed: lb == 1 && prev == 0"]
                 ELSE set(d1, lit, dbg)
            ELSE [dm |-> d1, panic |-> ""]
       ELSE [dm |-> d, panic |-> ""]

set_ub(d, var, new_ub, dbg) ==
    LET prev == d.domains[var + 1].ub
        d1 == [d EXCEPT !.domains[var + 1].ub = new_ub,
                        !.trail = Q_push(@, [var |-> var, ev |-> "NewUB",
                                             prev |-> prev, new |-> new_ub])]
        lit == d.domains[var + 1].lit
    IN IF prev > new_ub
       THEN IF lit # NoLit
            THEN IF dbg /\ ~(new_ub = 0 /\ prev = 1)
                 THEN [dm |-> d1, panic |-> "assertion failed: ub == 0 && prev == 1"]
                 ELSE set(d1, Lit_not(lit), dbg)
            ELSE [dm |-> d1, panic |-> ""]
       ELSE [dm |-> d, panic |-> ""]

set(d, lit, dbg) ==
    LET var == lit.var
        val == lit.val
        has_prev == RefMap_contains(d.values, var)
        d1 == [d EXCEPT !.values = RefMap_insert(@, var, val),
                        !.lit_trail = Q_push(@, lit)]
    IN IF has_prev /\ RefMap_get(d.values, var) = ~val
       THEN [dm |-> d, panic |-> "Incompatible values"]
       ELSE IF ~has_prev
       THEN IF RefMap_contains(d1.sat_to_int, var)
            THEN LET int_var == RefMap_get(d1.sat_to_int, var)
                 IN IF val /\ ~int_var.inverted
                    THEN set_lb(d1, int_var.variable, 1, dbg)
                    ELSE set_ub(d1, int_var.variable, 0, dbg)
            ELSE [dm |-> d1, panic |-> ""]
       ELSE [dm |-> d, panic |-> ""]

\* bind without its two assert!: a second literal replaces the first.
bind_replacing(d, k, lit) ==
    [dm |-> [d EXCEPT !.binding = RefMap_insert(@, k, lit),
                      !.domains[k + 1].lit = lit,
                      !.sat_to_int = RefMap_insert(@, lit.var,
                                         [variable |-> k, inverted |-> ~lit.val])],
     panic |-> ""]

\* Returns [dm, panic].
bind(d, k, lit) ==
    IF RefMap_contains(d.binding, k)
    THEN [dm |-> d, panic |-> "assertion failed: !self.binding.contains(k)"]
    ELSE IF d.domains[k + 1].lit # NoLit
    THEN [dm |-> d, panic |-> "The same variable is bound to more than one literal"]
    ELSE [dm |-> [d EXCEPT !.binding = RefMap_insert(@, k, lit),
                           !.domains[k + 1].lit = lit,
                           !.sat_to_int = RefMap_insert(@, lit.var,
                                              [variable |-> k, inverted |-> ~lit.val])],
          panic |-> ""]

\* Option<Lit>, None being NoLit
literal_of(d, bvar) ==
    IF RefMap_contains(d.binding, bvar) THEN RefMap_get(d.binding, bvar) ELSE NoLit

\* undo_int_event taking every event for a NewUB.
undo_int_event_as_ub(domains, ev) ==
    [domains |-> [domains EXCEPT ![ev.var + 1].ub = ev.prev],
     ok |-> domains[ev.var + 1].ub = ev.new]

\* intern_variable_with(bvar, make_lit), made being the literal make_lit returns
\* when it is invoked; [dm, lit, invoked, panic].
intern_variable_with(d, bvar, made) ==
    IF literal_of(d, bvar) # NoLit
    THEN [dm |-> d, lit |-> literal_of(d, bvar), invoked |-> FALSE, panic |-> ""]
    ELSE [dm |-> bind(d, bvar, made).dm, lit |-> made, invoked |-> TRUE,
          panic |-> bind(d, bvar, made).panic]

\* Option<Lit>, None being NoLit
interned_expr(d, handle) ==
    IF RefMap_contains(d.expr_binding, handle) THEN RefMap_get(d.expr_binding, handle)
    ELSE NoLit

bind_expr(d, handle, literal) ==
    [d EXCEPT !.expr_binding = RefMap_insert(@, handle, literal)]

\* intern_expr_with calling make_lit and bind_expr whatever is interned.
intern_expr_with_anew(d, handle, made) ==
    [dm |-> bind_expr(d, handle, made), lit |-> made, invoked |-> TRUE]

\* intern_expr_with(handle, make_lit), made being the literal make_lit returns
\* when it is invoked; [dm, lit, invoked].
intern_expr_with(d, handle, made) ==
    IF interned_expr(d, handle) # NoLit
    THEN [dm |-> d, lit |-> interned_expr(d, handle), invoked |-> FALSE]
    ELSE [dm |-> bind_expr(d, handle, made), lit |-> made, invoked |-> TRUE]

\* Returns [domains, ok]: ok is the debug_assert_eq! on the value undone.
undo_int_event(domains, ev) ==
    IF ev.ev = "NewLB"
    THEN [domains |-> [domains EXCEPT ![ev.var + 1].lb = ev.prev],
          ok |-> domains[ev.var + 1].lb = ev.new]
    ELSE [domains |-> [domains EXCEPT ![ev.var + 1].ub = ev.prev],
          ok |-> domains[ev.var + 1].ub = ev.new]

RECURSIVE undo_int_events(_, _)
undo_int_events(domains, evs) ==
    IF evs = <<>> THEN [domains |-> domains, ok |-> TRUE]
    ELSE LET r == undo_int_event(domains, Head(evs))
             rest == undo_int_events(r.domains, Tail(evs))
         IN [domains |-> rest.domains, ok |-> r.ok /\ rest.ok]

RECURSIVE remove_values(_, _)
remove_values(values, lits) ==
    IF lits = <<>> THEN values
    ELSE remove_values(RefMap_remove(values, Head(lits).var), Tail(lits))

\* impl Backtrack for DiscreteModel; each returns [dm, level, panic].
save_state(d, dbg) ==
    LET a == Q_save_state(d.trail)
        b == Q_save_state(d.lit_trail)
    IN [dm |-> [d EXCEPT !.trail = a.q, !.lit_trail = b.q], level |-> a.level,
        panic |-> IF dbg /\ a.level # b.level THEN "assertion failed: a == b" ELSE ""]

num_saved(d) == Q_num_saved(d.trail)

restore_last(d, dbg) ==
    LET a == Q_restore_last(d.trail)
        b == Q_restore_last(d.lit_trail)
        u == undo_int_events(d.domains, a.popped)
    IN [dm |-> [d EXCEPT !.trail = a.q, !.lit_trail = b.q, !.domains = u.domains,
                         !.values = remove_values(@, b.popped)],
        level |-> -1,
        panic |-> IF dbg /\ ~u.ok THEN "assertion failed: dom.lb == new" ELSE ""]

\* Q::restore_with(saved_id, f): [q, popped] as Q_restore_last, the save points
\* above saved_id being restored one after the other.
RECURSIVE Q_restore(_, _)
Q_restore(q, saved_id) ==
    IF Q_num_saved(q) <= saved_id THEN [q |-> q, popped |-> <<>>]
    ELSE LET one == Q_restore_last(q)
             rest == Q_restore(one.q, saved_id)
         IN [q |-> rest.q, popped |-> one.popped \o rest.popped]

\* impl Backtrack for DiscreteModel: restore(saved_id)
restore(d, saved_id, dbg) ==
    LET a == Q_restore(d.trail, saved_id)
        b == Q_restore(d.lit_trail, saved_id)
        u == undo_int_events(d.domains, a.popped)
    IN [dm |-> [d EXCEPT !.trail = a.q, !.lit_trail = b.q, !.domains = u.domains,
                         !.values = remove_values(@, b.popped)],
        level |-> -1,
        panic |-> IF dbg /\ ~u.ok THEN "assertion failed: dom.lb == new" ELSE ""]


\* ------------------------------------------------------------------ Brancher
\* Option<bool> is the set of its values: {} is None, {b} is Some(b).
\* Assignment (crate::model::assignments): the value of each SAT variable,
\* with the values there were at each save point.
Assignment_new == [values |-> [v \in 0..(MaxBVars - 1) |-> {}], saved |-> <<>>]
value_of_sat_variable(ca, v) == ca.values[v]

\* Assignment, as the driver writes it: a value for a variable that has none,
\* save points, and the return to the last of them.
Assignment_set(ca, lit) == [ca EXCEPT !.values[lit.var] = {lit.val}]
Assignment_save_state(ca) == [ca EXCEPT !.saved = Append(@, ca.values)]
Assignment_restore_last(ca) == [values |-> Last(ca.saved), saved |-> Front(ca.saved)]
Assignment_restore(ca, saved_id) ==
    [values |-> (ca.saved \o <<ca.values>>)[saved_id + 1], saved |-> SubSeq(ca.saved, 1, saved_id)]

\* aries_collections::heap::IdxHeap: the declared keys, the priority of each,
\* and the keys that are in the queue.  The key handed out first is the one of
\* highest priority, the smallest of them when several share it.
IdxHeap_new == [declared |-> {}, priority |-> [v \in 0..(MaxBVars - 1) |-> 0], queue |-> {}]
IdxHeap_declare_element(h, k, p) ==
    [h EXCEPT !.declared = @ \cup {k}, !.priority[k] = p]
IdxHeap_enqueue(h, k) == [h EXCEPT !.queue = @ \cup {k}]
\* Option<K>: {} or {k}
IdxHeap_peek(h) ==
    IF h.queue = {} THEN {}
    ELSE {CHOOSE k \in h.queue :
            \A o \in h.queue : h.priority[o] < h.priority[k]
                               \/ (h.priority[o] = h.priority[k] /\ k <= o)}
\* Returns [heap, popped].
IdxHeap_pop(h) ==
    [heap |-> [h EXCEPT !.queue = @ \ IdxHeap_peek(h)], popped |-> IdxHeap_peek(h)]
IdxHeap_change_priority(h, k, p) == [h EXCEPT !.priority[k] = p]

\* BoolVarSelect: activities are counted in units of the initial var_inc (1.0);
\* decay_activities has no caller, so var_inc stays 1.
BoolVarSelect_new == [params |-> [var_inc |-> 1], heap |-> IdxHeap_new]
declare_variable(bs, v) ==
    [bs EXCEPT !.heap = IdxHeap_declare_element(@, v, bs.params.var_inc)]
enqueue_variable(bs, var) == [bs EXCEPT !.heap = IdxHeap_enqueue(@, var)]
pop_next_var(bs) ==
    [bool_sel |-> [bs EXCEPT !.heap = IdxHeap_pop(@).heap], popped |-> IdxHeap_pop(bs.heap).popped]
peek_next_var(bs) == IdxHeap_peek(bs.heap)
\* The rescaling above 1e100 is out of reach of MaxActivity bumps.
var_bump_activity(bs, var) ==
    [bs EXCEPT !.heap = IdxHeap_change_priority(@, var, @.priority[var] + bs.params.var_inc)]

\* UndoChange
Insertion(v) == [change |-> "Insertion", var |-> v]
Removal(v) == [change |-> "Removal", var |-> v]

\* BranchingParams::default; the f32 ratio 1.5 is the fraction 3 / 2.
BranchingParams_default ==
    [prefered_bool_value |-> FALSE,
     allowed_conflicts |-> DefaultAllowedConflicts,
     increase_ratio_for_allowed_conflicts |-> [num |-> 3, den |-> 2]]

\* Brancher::new; the trail is a crate::backtrack::Trail, which is the Q above.
Brancher_new ==
    [params |-> BranchingParams_default,
     bool_sel |-> BoolVarSelect_new,
     default_assignment |-> {},
     trail |-> Q_new,
     conflicts_at_last_restart |-> 0]

is_declared(b, var) == var \in b.bool_sel.heap.declared
declare(b, bvar) == [b EXCEPT !.bool_sel = declare_variable(@, bvar)]

enqueue(b, bvar) ==
    [b EXCEPT !.bool_sel = enqueue_variable(@, bvar),
              !.trail = Q_push(@, Insertion(bvar))]

\* next_unset without the trail.push(UndoChange::Removal(v)).
RECURSIVE next_unset_untrailed(_, _)
next_unset_untrailed(b, ca) ==
    LET peeked == peek_next_var(b.bool_sel)
    IN IF peeked = {} THEN [brancher |-> b, next_unset |-> {}]
       ELSE LET v == CHOOSE x \in peeked : TRUE
            IN IF value_of_sat_variable(ca, v) # {}
               THEN next_unset_untrailed([b EXCEPT !.bool_sel = pop_next_var(@).bool_sel], ca)
               ELSE [brancher |-> b, next_unset |-> {v}]

\* The loop of next_decision: drops the variables that have a value from the
\* head of the queue.  Returns [brancher, next_unset], next_unset an Option.
RECURSIVE next_unset(_, _)
next_unset(b, ca) ==
    LET peeked == peek_next_var(b.bool_sel)
    IN IF peeked = {} THEN [brancher |-> b, next_unset |-> {}]
       ELSE LET v == CHOOSE x \in peeked : TRUE
            IN IF value_of_sat_variable(ca, v) # {}
               THEN next_unset([b EXCEPT !.bool_sel = pop_next_var(@).bool_sel,
                                         !.trail = Q_push(@, Removal(v))],
                               ca)
               ELSE [brancher |-> b, next_unset |-> {v}]

\* (allowed_conflicts as f32 * increase_ratio) as u64: the product is exact in
\* f32 below 2^24 and the cast truncates.
increased(allowed_conflicts, ratio) == (allowed_conflicts * ratio.num) \div ratio.den

\* Decision, NoDecision being the None of Option<Decision>
SetLiteral(lit) == [kind |-> "SetLiteral", lit |-> lit]
Restart == [kind |-> "Restart", lit |-> NoLit]
NoDecision == [kind |-> "None", lit |-> NoLit]

\* The value next_decision gives the variable it selected: the one of the
\* default assignment if it has one, the preferred value otherwise.
default_value(b, v) ==
    IF b.default_assignment = {} THEN b.params.prefered_bool_value
    ELSE LET ass == CHOOSE x \in b.default_assignment : TRUE
         IN IF value_of_sat_variable(ass, v) = {} THEN b.params.prefered_bool_value
            ELSE CHOOSE x \in value_of_sat_variable(ass, v) : TRUE

\* decided with a restart only when the allowed conflicts are exceeded (>).
decided_when_exceeded(b, found, st) ==
    IF found = {} THEN [brancher |-> b, decision |-> NoDecision]
    ELSE IF st.num_conflicts - b.conflicts_at_last_restart > b.params.allowed_conflicts
    THEN [brancher |-> [b EXCEPT !.conflicts_at_last_restart = st.num_conflicts,
                                 !.params.allowed_conflicts =
                                     increased(@, b.params.increase_ratio_for_allowed_conflicts)],
          decision |-> Restart]
    ELSE [brancher |-> b,
          decision |-> SetLiteral(Lit_new(CHOOSE x \in found : TRUE,
                                          default_value(b, CHOOSE x \in found : TRUE)))]

\* What next_decision does once the loop has left b with next_unset at the head:
\* [brancher, decision].
decided(b, found, st) ==
    IF found = {} THEN [brancher |-> b, decision |-> NoDecision]
    ELSE IF st.num_conflicts - b.conflicts_at_last_restart >= b.params.allowed_conflicts
    THEN [brancher |-> [b EXCEPT !.conflicts_at_last_restart = st.num_conflicts,
                                 !.params.allowed_conflicts =
                                     increased(@, b.params.increase_ratio_for_allowed_conflicts)],
          decision |-> Restart]
    ELSE [brancher |-> b,
          decision |-> SetLiteral(Lit_new(CHOOSE x \in found : TRUE,
                                          default_value(b, CHOOSE x \in found : TRUE)))]

next_decision_of(r, st) == decided(r.brancher, r.next_unset, st)
next_decision(b, st, ca) ==
    next_decision_of(next_unset(b, ca), st)

bump_activity(b, bvar) == [b EXCEPT !.bool_sel = var_bump_activity(@, bvar)]

\* impl Backtrack for Brancher
Brancher_save_state(b) ==
    [brancher |-> [b EXCEPT !.trail = Q_save_state(@).q], level |-> Q_save_state(b.trail).level]
Brancher_num_saved(b) == Q_num_saved(b.trail)
\* A restore_last that re-enqueues nothing.
undo_no_change(bools, events) == bools

\* The closure of restore_last, applied to the events in the order the trail
\* hands them over.
RECURSIVE undo_changes(_, _)
undo_changes(bools, events) ==
    IF events = <<>> THEN bools
    ELSE undo_changes(IF Head(events).change = "Removal"
                      THEN enqueue_variable(bools, Head(events).var)
                      ELSE bools,
                      Tail(events))
\* A restore_last that hands the events over but keeps them on the trail.
restored_keeping_trail(b, r) == [b EXCEPT !.bool_sel = undo_changes(@, r.popped)]

restored_with(b, r) ==
    [b EXCEPT !.trail = r.q, !.bool_sel = undo_changes(@, r.popped)]
Brancher_restore_last(b) == restored_with(b, Q_restore_last(b.trail))

\* Backtrack::restore(saved_id): restore_last until saved_id states are saved.
RECURSIVE Brancher_restore(_, _)
Brancher_restore(b, saved_id) ==
    IF Brancher_num_saved(b) <= saved_id THEN b
    ELSE Brancher_restore(Brancher_restore_last(b), saved_id)

\* ---------------------------------------------------------- DiffLogicTheory
\* AtomID::from(EdgeID) keeps base_id and negated: an atom is the EdgeID record.
\* Mapping: atoms maps a literal to the atoms bound to it, literal an atom to
\* its literal; both are sets of entries [k, v] as the RefMap above.
Mapping_new == [atoms |-> {}, literal |-> {}]
atoms_of(m, lit) == IF RefMap_contains(m.atoms, lit) THEN RefMap_get(m.atoms, lit) ELSE <<>>
\* Option<Lit>: NoLit is None
Mapping_literal_of(m, atom) ==
    IF RefMap_contains(m.literal, atom) THEN RefMap_get(m.literal, atom) ELSE NoLit
Mapping_push(atoms, lit, atom) == RefMap_insert(atoms, lit, Append(atoms_of([atoms |-> atoms], lit), atom))
\* A bind that records the atom and leaves its negation out.
Mapping_bind_one_way(m, lit, atom) ==
    IF RefMap_contains(m.literal, atom)
    THEN [mapping |-> m,
          panic |-> IF RefMap_get(m.literal, atom) = lit THEN ""
                    ELSE "A binding with a different literal already exists"]
    ELSE [mapping |->
              [literal |-> RefMap_insert(m.literal, atom, lit),
               atoms |-> Mapping_push(m.atoms, lit, atom)],
          panic |-> ""]

\* Returns [mapping, panic].
Mapping_bind(m, lit, atom) ==
    IF RefMap_contains(m.literal, atom)
    THEN [mapping |-> m,
          panic |-> IF RefMap_get(m.literal, atom) = lit THEN ""
                    ELSE "A binding with a different literal already exists"]
    ELSE [mapping |->
              [literal |-> RefMap_insert(RefMap_insert(m.literal, atom, lit),
                                         EdgeID_new(atom.base_id, ~atom.negated), Lit_not(lit)),
               atoms |-> Mapping_push(Mapping_push(m.atoms, lit, atom), Lit_not(lit),
                                      EdgeID_new(atom.base_id, ~atom.negated))],
          panic |-> ""]

DiffLogicTheory_new ==
    [stn |-> IncSTN_new, timepoints |-> {}, ivars |-> {}, mapping |-> Mapping_new,
     num_saved_states |-> 0]

\* IAtom: var is an IVar or NoVar (a constant), shift the integer added to it.
NoVar == -1
IAtom_new(var, shift) == [var |-> var, shift |-> shift]

\* DiffLogicTheory::timepoint, model_bounds[ivar] being what model.bounds(ivar)
\* returns.  The atom of a constant is the origin.  Returns [theory, tp].
timepoint(th, ivar, model_bounds) ==
    IF ivar = NoVar THEN [theory |-> th, tp |-> origin]
    ELSE IF RefMap_contains(th.timepoints, ivar)
    THEN [theory |-> th, tp |-> RefMap_get(th.timepoints, ivar)]
    ELSE [theory |-> [th EXCEPT !.stn = add_timepoint(@, model_bounds[ivar][1], model_bounds[ivar][2]),
                                !.timepoints = RefMap_insert(@, ivar, num_nodes(th.stn)),
                                !.ivars = RefMap_insert(@, num_nodes(th.stn), ivar)],
          tp |-> num_nodes(th.stn)]

\* crate::max_delay(from, to, delay): to - from <= delay
max_delay(from, to, delay) == Edge_new(from, to, delay)

record_atom(s, atom) == add_inactive_constraint(s, atom.source, atom.target, atom.weight, FALSE)

\* Theory::bind of the literal to a Leq expression whose atoms are at ta.tp and
\* tb.tp, tb.theory being the theory once the timepoints are there.
\* Returns [theory, result, panic].
bound_leq(literal, a, b, ta, tb) ==
    LET edge == max_delay(tb.tp, ta.tp, b.shift - a.shift)
        rec == record_atom(tb.theory.stn, edge)
        m == Mapping_bind(tb.theory.mapping, literal, rec.id)
    IN [theory |-> [tb.theory EXCEPT !.stn = rec.stn, !.mapping = m.mapping],
        result |-> "Enforced", panic |-> m.panic]

bind_leq(th, literal, a, b, model_bounds) ==
    LET ta == timepoint(th, a.var, model_bounds)
    IN bound_leq(literal, a, b, ta, timepoint(ta.theory, b.var, model_bounds))

\* Theory::bind; expr is [fun, a, b].  Fun::Eq hands the two Leq back to the
\* solver through the queue, which is not part of the theory.
Theory_bind(th, literal, expr, model_bounds) ==
    IF expr.fun = "Leq" THEN bind_leq(th, literal, expr.a, expr.b, model_bounds)
    ELSE IF expr.fun = "Eq" THEN [theory |-> th, result |-> "Refined", panic |-> ""]
    ELSE [theory |-> th, result |-> "Unsupported", panic |-> ""]

\* The first loop of propagate: the atoms of every literal of bool_events are
\* marked active in the network s.
RECURSIVE mark_atoms(_, _)
mark_atoms(s, atoms) ==
    IF atoms = <<>> THEN s ELSE mark_atoms(mark_active(s, Head(atoms)), Tail(atoms))
RECURSIVE mark_events(_, _, _)
mark_events(s, m, bool_events) ==
    IF bool_events = <<>> THEN s
    ELSE mark_events(mark_atoms(s, atoms_of(m, Head(bool_events))), m, Tail(bool_events))

\* The clause of TheoryResult::Contradiction, from the edges x of
\* NetworkStatus::Inconsistent.
RECURSIVE clause_of(_, _)
clause_of(m, x) ==
    IF x = <<>> THEN <<>>
    ELSE IF Mapping_literal_of(m, Head(x)) = NoLit THEN clause_of(m, Tail(x))
    ELSE <<Lit_not(Mapping_literal_of(m, Head(x)))>> \o clause_of(m, Tail(x))

\* What propagate returns when propagate_all returned r: [theory, status,
\* clause, explanation, panic].  The bounds written to the model on Consistent
\* are no part of the theory.
theory_propagated(th, r) ==
    [theory |-> [th EXCEPT !.stn = r.stn],
     status |-> IF r.status = "Inconsistent" THEN "Contradiction" ELSE r.status,
     clause |-> IF r.status = "Inconsistent" THEN clause_of(th.mapping, r.explanation) ELSE <<>>,
     explanation |-> r.explanation,
     panic |-> r.panic]

Theory_propagate(th, bool_events) ==
    theory_propagated(th, propagate_all(mark_events(th.stn, th.mapping, bool_events)))

\* impl Backtrack for DiffLogicTheory.  Returns [theory, level, panic].
theory_saved(th, r) ==
    [theory |-> [th EXCEPT !.num_saved_states = @ + 1, !.stn = r.stn],
     level |-> th.num_saved_states, panic |-> r.panic]
Theory_save_state(th) == theory_saved(th, set_backtrack_point(th.stn))
Theory_num_saved(th) == th.num_saved_states
theory_restored(th, r) ==
    [theory |-> [th EXCEPT !.num_saved_states = @ - 1, !.stn = r.stn],
     level |-> -1,
     panic |-> IF r.panic # "" THEN r.panic
               ELSE IF r.result = -1 THEN "No backtrack point left" ELSE ""]
Theory_restore_last(th) == theory_restored(th, undo_to_last_backtrack_point(th.stn))

\* ------------------------------------------------------------ the STN run
\* What a call hands back: the operation, its status ("ok", "Consistent",
\* "Inconsistent", "Some", "None" or "panic"), the level returned by
\* set_backtrack_point / undo_to_last_backtrack_point (-1 otherwise), the slice
\* of NetworkStatus::Inconsistent, and whether every debug_assert! met held.
Ret(op, status, level, explanation, dbg_ok) ==
    [op |-> op, status |-> status, level |-> level, explanation |-> explanation,
     dbg_ok |-> dbg_ok]

\* The brancher, the statistics and the assignment of a solver that has made
\* no call yet.
NoBrancher ==
    /\ brancher = Brancher_new
    /\ stats = [num_conflicts |-> 0]
    /\ current_assignment = Assignment_new
    /\ enqueued = {}

\* The theory of a solver that has made no call yet, and no bool event.
NoTheory ==
    /\ theory = DiffLogicTheory_new
    /\ model_events = <<>>

\* No planner was started and no container was made.
NoPlanner ==
    /\ lcp = <<>>
    /\ driver = <<>>
    /\ con = <<>>
    /\ watches = <<>>
    /\ pool = <<>>

\* What a caller can observe of the network through its public methods.
Observable(s) ==
    [num_nodes |-> num_nodes(s),
     bounds |-> [i \in 1..Len(s.distances) |-> <<lb(s, i - 1), ub(s, i - 1)>>],
     constraints |-> s.constraints,
     lookup |-> s.lookup,
     active_forward_edges |-> s.active_forward_edges,
     active_backward_edges |-> s.active_backward_edges,
     level |-> s.level,
     pending_activations |-> s.pending_activations]

\* Constraint pairs made by add_edge / add_inactive_edge.
NumUserPairs(s) == Cardinality({i \in 1..Len(s.constraints) : ~s.constraints[i].hidden})
\* Activations on the trail that were requested by the caller
\* (init_timepoint requests two for every timepoint but the origin, whose
\* trail is cleared by new).
NumUserMarks(s) ==
    Cardinality({i \in 1..Len(s.trail) : s.trail[i].type = "NewPendingActivation"})
        - 2 * (num_nodes(s) - 1)
\* The EdgeIDs the caller may hold: both polarities of every pair in the lookup table.
UserIds(s) == {EdgeID_new(x.v, n) : x \in s.lookup, n \in BOOLEAN}
Nodes(s) == 0..(num_nodes(s) - 1)
\* No edge activation is waiting in the queue.
NoActivationPending(s) ==
    \A i \in 1..Len(s.pending_activations) : s.pending_activations[i].type # "ToActivate"

\* "Once the network reaches an inconsistent state, the only valid operation is to undo".
Usable == panic = "" /\ ret.status # "Inconsistent"

\* A call: the object after it (unchanged by a panic) and what it returned.
Call(s, r, msg) ==
    IF msg # ""
    THEN /\ panic' = msg
         /\ ret' = [r EXCEPT !.status = "panic"]
         /\ UNCHANGED stn
    ELSE /\ stn' = s
         /\ ret' = r
         /\ UNCHANGED panic

\* The variables no IncSTN call touches.
NotSTN == <<dm, debug_assertions, brancher, stats, current_assignment, enqueued, theory,
            model_events, Others>>

\* add_inactive_edge / add_edge was called on edge: what is logged of the call.
Issue(log, edge, id) == issued' = IF log THEN [edge |-> edge, id |-> id] ELSE issued

\* add_inactive_edge returning, r being what its add_inactive_constraint returned.
AddedInactiveEdge(r, edge, log) ==
    /\ r.created
    /\ Call(r.stn, Ret("add_inactive_edge", "ok", -1, <<>>, r.dbg_ok), "")
    /\ Issue(log, edge, r.id)

\* add_edge from its mark_active on, r being what its add_inactive_constraint returned.
AddedEdge(r, edge, max_edges, log) ==
    /\ r.created => NumUserPairs(stn) < max_edges
    /\ Call(mark_active(r.stn, r.id),
            Ret("add_edge", "ok", -1, <<>>, r.dbg_ok /\ has_edge(r.stn, r.id)), "")
    /\ Issue(log, edge, r.id)

\* propagate_all returning r.
Propagated(r) ==
    Call(r.stn, Ret("propagate_all", r.status, -1, r.explanation, r.dbg_ok), r.panic)

\* undo_to_last_backtrack_point returning r.
Undone(r) ==
    /\ Call(r.stn, Ret("undo_to_last_backtrack_point",
                       IF r.result = -1 THEN "None" ELSE "Some", r.result, <<>>, TRUE),
            r.panic)
    /\ saved' = IF r.panic = "" /\ r.result # -1 THEN Front(saved) ELSE saved

\* IncSTN::add_timepoint(l, u) with l <= u drawn from bounds, on a network of
\* fewer than max_nodes timepoints.
CallAddTimepoint(max_nodes, bounds) ==
    /\ Usable
    /\ num_nodes(stn) < max_nodes
    /\ \E l \in bounds, u \in bounds :
         /\ l <= u
         /\ Call(add_timepoint(stn, l, u), Ret("add_timepoint", "ok", -1, <<>>, TRUE), "")
    /\ UNCHANGED <<saved, issued, NotSTN>>

\* IncSTN::add_inactive_edge on an edge not interned yet (on an interned edge
\* the call only looks the id up and changes nothing).
CallAddInactiveEdge(max_edges, ends, log) ==
    /\ Usable
    /\ NumUserPairs(stn) < max_edges
    /\ \E st \in ends, weight \in Weights :
         AddedInactiveEdge(add_inactive_constraint(stn, st[1], st[2], weight, FALSE),
                           Edge_new(st[1], st[2], weight), log)
    /\ UNCHANGED <<saved, NotSTN>>

\* IncSTN::add_edge
CallAddEdge(max_edges, max_marks, ends, log) ==
    /\ Usable
    /\ NumUserMarks(stn) < max_marks
    /\ \E st \in ends, weight \in Weights :
         AddedEdge(add_inactive_constraint(stn, st[1], st[2], weight, FALSE),
                   Edge_new(st[1], st[2], weight), max_edges, log)
    /\ UNCHANGED <<saved, NotSTN>>

\* IncSTN::mark_active on an id the caller holds
CallMarkActive(max_marks) ==
    /\ Usable
    /\ NumUserMarks(stn) < max_marks
    /\ \E edge \in UserIds(stn) :
         Call(mark_active(stn, edge), Ret("mark_active", "ok", -1, <<>>, has_edge(stn, edge)), "")
    /\ UNCHANGED <<saved, issued, NotSTN>>

\* IncSTN::propagate_all (with an empty queue the call changes nothing)
PropagateAll ==
    /\ Usable
    /\ stn.pending_activations # <<>>
    /\ Propagated(propagate_all(stn))
    /\ UNCHANGED <<saved, issued, NotSTN>>

\* IncSTN::set_backtrack_point, called as documented: no edge activation pending.
CallSetBacktrackPoint(max_level) ==
    /\ Usable
    /\ stn.level < max_level
    /\ NoActivationPending(stn)
    /\ LET r == set_backtrack_point(stn)
       IN /\ Call(r.stn, Ret("set_backtrack_point", "ok", r.stn.level, <<>>, TRUE), r.panic)
          /\ saved' = IF r.panic = "" THEN Append(saved, Observable(stn)) ELSE saved
    /\ UNCHANGED <<issued, NotSTN>>

\* IncSTN::undo_to_last_backtrack_point, called with a backtrack point to go back to.
UndoToLastBacktrackPoint ==
    /\ panic = ""
    /\ stn.level > 0
    /\ Undone(undo_to_last_backtrack_point(stn))
    /\ UNCHANGED <<issued, NotSTN>>

STNInit ==
    /\ stn = IncSTN_new
    /\ ret = Ret("new", "ok", -1, <<>>, TRUE)
    /\ panic = ""
    /\ saved = <<>>
    /\ issued = [edge |-> Edge_new(origin, origin, 0), id |-> None]
    /\ dm = DiscreteModel_new
    /\ debug_assertions = FALSE
    /\ NoBrancher
    /\ NoTheory
    /\ NoPlanner

\* ---- any caller: every call in any order
AddTimepoint == CallAddTimepoint(MaxNodes, Bounds)
AddInactiveEdge == CallAddInactiveEdge(MaxEdges, Nodes(stn) \X Nodes(stn), TRUE)
AddEdge == CallAddEdge(MaxEdges, MaxMarks, Nodes(stn) \X Nodes(stn), TRUE)
MarkActive == CallMarkActive(MaxMarks)
SetBacktrackPoint == CallSetBacktrackPoint(MaxLevel)

STNNext ==
    \/ AddTimepoint
    \/ AddInactiveEdge
    \/ AddEdge
    \/ MarkActive
    \/ PropagateAll
    \/ SetBacktrackPoint
    \/ UndoToLastBacktrackPoint

SpecSTN == STNInit /\ [][STNNext]_vars

\* ---- an eager caller: it propagates before it changes the network again
\* (as DiffLogicTheory does), on timepoints other than the origin.
EagerAddTimepoint ==
    /\ NoActivationPending(stn)
    /\ CallAddTimepoint(EagerNodes, EagerBounds)
EagerAddEdge ==
    /\ NoActivationPending(stn)
    /\ CallAddEdge(EagerEdges, EagerMarks, Nodes(stn) \X Nodes(stn), FALSE)
EagerSetBacktrackPoint == CallSetBacktrackPoint(EagerLevel)

EagerNext ==
    \/ EagerAddTimepoint
    \/ EagerAddEdge
    \/ PropagateAll
    \/ EagerSetBacktrackPoint
    \/ UndoToLastBacktrackPoint

SpecEager == STNInit /\ [][EagerNext]_vars

\* ---- an eager caller that only grows a wider network of constraints between
\* timepoints other than the origin.
WideAddTimepoint ==
    /\ NoActivationPending(stn)
    /\ CallAddTimepoint(WideNodes, 0..WideBound)
WideAddEdge ==
    /\ NoActivationPending(stn)
    /\ CallAddEdge(WideEdges, WideEdges,
                   {st \in Nodes(stn) \X Nodes(stn) :
                        st[1] # origin /\ st[2] # origin /\ st[1] # st[2]},
                   FALSE)

WideNext ==
    \/ WideAddTimepoint
    \/ WideAddEdge
    \/ PropagateAll

SpecWide == STNInit /\ [][WideNext]_vars

\* ------------------------------------------------- the DiscreteModel run
\* The variables no DiscreteModel call touches.
NotDM == <<stn, issued, debug_assertions, brancher, stats, current_assignment, enqueued,
           theory, model_events, Others>>

\* History: what save_state is to give back, taken when it is called: the
\* bounds of every variable, the values of the literals and both trails.
\* written tells that only set, set_lb and set_ub were called since.
DMSnapshot(d) ==
    [bounds |-> [i \in 1..Len(d.domains) |-> <<d.domains[i].lb, d.domains[i].ub>>],
     values |-> d.values, trail |-> d.trail, lit_trail |-> d.lit_trail, written |-> TRUE]
\* A call other than set, set_lb and set_ub was made under the open save points.
Declared == saved' = [i \in 1..Len(saved) |-> [saved[i] EXCEPT !.written = FALSE]]

Vars(d) == 0..(Len(d.domains) - 1)
\* The Boolean variables: those made by new_bvar.
BVars(d) == {v \in Vars(d) : d.labels[v + 1] = "b"}
SatVars == 0..(MaxSatVars - 1)
Lits == {Lit_new(x, val) : x \in SatVars, val \in BOOLEAN}
IntCsts == 0..MaxInt
ExprHandles == 0..(MaxExprs - 1)

\* A DiscreteModel call that returned r = [dm, panic] (a call that changes
\* nothing is no step).
DMCall(op, r, level) ==
    /\ panic = ""
    /\ r.panic # "" \/ r.dm # dm
    /\ IF r.panic # ""
       THEN /\ panic' = r.panic
            /\ ret' = Ret(op, "panic", -1, <<>>, TRUE)
            /\ UNCHANGED dm
       ELSE /\ dm' = r.dm
            /\ ret' = Ret(op, "ok", level, <<>>, TRUE)
            /\ UNCHANGED panic
    /\ UNCHANGED NotDM

DMInit ==
    /\ dm = DiscreteModel_new
    /\ debug_assertions \in BOOLEAN
    /\ ret = Ret("new", "ok", -1, <<>>, TRUE)
    /\ panic = ""
    /\ stn = IncSTN_new
    /\ saved = <<>>
    /\ issued = [edge |-> Edge_new(origin, origin, 0), id |-> None]
    /\ NoBrancher
    /\ NoTheory
    /\ NoPlanner

\* new_discrete_var(lb, ub, label), with lb <= ub as its callers give it
CallNewDiscreteVar(max_vars) ==
    /\ Len(dm.domains) < max_vars
    /\ \E l \in IntCsts, u \in IntCsts :
         /\ l <= u
         /\ DMCall("new_discrete_var", [dm |-> new_discrete_var(dm, l, u, "i").dm, panic |-> ""], -1)
    /\ Declared

\* Model::new_bvar: new_discrete_var(0, 1, label) seen as a BVar
CallNewBVar(max_vars) ==
    /\ Len(dm.domains) < max_vars
    /\ DMCall("new_bvar", [dm |-> new_discrete_var(dm, 0, 1, "b").dm, panic |-> ""], -1)
    /\ Declared

\* bind(k, lit) as intern_variable_with does it: k has no literal yet, and
\* lit is of a SAT variable that stands for no other variable.
Bind ==
    \E k \in BVars(dm), lit \in Lits :
        /\ literal_of(dm, k) = NoLit
        /\ ~RefMap_contains(dm.sat_to_int, lit.var)
        /\ DMCall("bind", bind(dm, k, lit), -1)
        /\ Declared

Set ==
    /\ \E lit \in Lits : DMCall("set", set(dm, lit, debug_assertions), -1)
    /\ UNCHANGED saved

SetLb ==
    /\ \E v \in Vars(dm), k \in IntCsts :
         DMCall("set_lb", set_lb(dm, v, k, debug_assertions), -1)
    /\ UNCHANGED saved

SetUb ==
    /\ \E v \in Vars(dm), k \in IntCsts :
         DMCall("set_ub", set_ub(dm, v, k, debug_assertions), -1)
    /\ UNCHANGED saved

CallSaveState(max_saved) ==
    /\ num_saved(dm) < max_saved
    /\ LET r == save_state(dm, debug_assertions)
       IN /\ DMCall("save_state", r, r.level)
          /\ saved' = IF r.panic = "" THEN Append(saved, DMSnapshot(dm)) ELSE saved

RestoreLast ==
    /\ num_saved(dm) > 0
    /\ DMCall("restore_last", restore_last(dm, debug_assertions), -1)
    /\ saved' = Front(saved)

\* restore(saved_id) on a save point that is open
Restore ==
    \E saved_id \in 0..(num_saved(dm) - 1) :
        /\ DMCall("restore", restore(dm, saved_id, debug_assertions), saved_id)
        /\ saved' = SubSeq(saved, 1, saved_id)

NewDiscreteVar == CallNewDiscreteVar(MaxVars)
NewBVar == CallNewBVar(MaxVars)
SaveState == CallSaveState(MaxSaved)

DMNext ==
    \/ NewDiscreteVar
    \/ NewBVar
    \/ Bind
    \/ Set
    \/ SetLb
    \/ SetUb
    \/ SaveState
    \/ RestoreLast
    \/ Restore

SpecDM == DMInit /\ [][DMNext]_vars

\* ---- a caller that nests save points, on fewer variables
DeepNewDiscreteVar == CallNewDiscreteVar(DeepVars)
DeepNewBVar == CallNewBVar(DeepVars)
DeepSaveState == CallSaveState(DeepSaved)

\* intern_expr_with(handle, make_lit), make_lit returning lit
InternExprWith ==
    /\ \E handle \in ExprHandles, lit \in Lits :
         DMCall("intern_expr_with",
                [dm |-> intern_expr_with(dm, handle, lit).dm, panic |-> ""], -1)
    /\ UNCHANGED saved

DeepNext ==
    \/ DeepNewDiscreteVar
    \/ DeepNewBVar
    \/ Bind
    \/ Set
    \/ SetLb
    \/ SetUb
    \/ DeepSaveState
    \/ RestoreLast
    \/ Restore
    \/ InternExprWith

SpecDeep == DMInit /\ [][DeepNext]_vars

\* --------------------------------------------------------- the Brancher run
NotBrancher == <<stn, issued, dm, debug_assertions, theory, model_events, Others>>

BVarIds == 0..(MaxBVars - 1)

\* What C18 of a brancher can be compared across a save point: the queued
\* variables, the activities and the restart counters.
BrancherSnapshot(b) ==
    [queue |-> b.bool_sel.heap.queue,
     activity |-> [v \in b.bool_sel.heap.declared |-> b.bool_sel.heap.priority[v]],
     allowed_conflicts |-> b.params.allowed_conflicts,
     conflicts_at_last_restart |-> b.conflicts_at_last_restart]

BrancherInit ==
    /\ NoBrancher
    /\ NoTheory
    /\ NoPlanner
    /\ ret = Ret("new", "ok", -1, <<>>, TRUE)
    /\ panic = ""
    /\ saved = <<>>
    /\ stn = IncSTN_new
    /\ issued = [edge |-> Edge_new(origin, origin, 0), id |-> None]
    /\ dm = DiscreteModel_new
    /\ debug_assertions = FALSE

\* A Brancher call that left the brancher b and handed back status; var is the
\* variable of the literal of Decision::SetLiteral, -1 when there is none.
BrancherCall(op, b, status, var) ==
    /\ brancher' = b
    /\ ret' = Ret(op, status, var, <<>>, TRUE)
    /\ UNCHANGED <<panic, NotBrancher>>

Declare ==
    \E bvar \in BVarIds :
        /\ ~is_declared(brancher, bvar)
        /\ BrancherCall("declare", declare(brancher, bvar), "ok", -1)
        /\ UNCHANGED <<stats, current_assignment, enqueued, saved>>

CallEnqueue(max_insertions) ==
    \E bvar \in BVarIds :
        /\ is_declared(brancher, bvar)
        /\ Len(brancher.trail.events) < max_insertions
        /\ BrancherCall("enqueue", enqueue(brancher, bvar), "ok", -1)
        /\ enqueued' = enqueued \cup {bvar}
        /\ UNCHANGED <<stats, current_assignment, saved>>

Decided(r) ==
    BrancherCall("next_decision", r.brancher, r.decision.kind, r.decision.lit.var)

NextDecision ==
    /\ Decided(next_decision(brancher, stats, current_assignment))
    /\ UNCHANGED <<stats, current_assignment, enqueued, saved>>

CallBumpActivity(max_activity) ==
    \E bvar \in BVarIds :
        /\ is_declared(brancher, bvar)
        /\ brancher.bool_sel.heap.priority[bvar] < max_activity
        /\ BrancherCall("bump_activity", bump_activity(brancher, bvar), "ok", -1)
        /\ UNCHANGED <<stats, current_assignment, enqueued, saved>>

CallBrancherSaveState(max_saved) ==
    /\ Brancher_num_saved(brancher) < max_saved
    /\ BrancherCall("save_state", Brancher_save_state(brancher).brancher, "ok", -1)
    /\ saved' = Append(saved, BrancherSnapshot(brancher))
    /\ UNCHANGED <<stats, current_assignment, enqueued>>

\* The status tells whether restore_last put variables back in the queue.
BrancherRestored(b) ==
    BrancherCall("restore_last", b,
                 IF b.bool_sel.heap.queue # brancher.bool_sel.heap.queue THEN "requeued" ELSE "ok",
                 -1)

BrancherRestoreLast ==
    /\ Brancher_num_saved(brancher) > 0
    /\ BrancherRestored(Brancher_restore_last(brancher))
    /\ saved' = Front(saved)
    /\ UNCHANGED <<stats, current_assignment, enqueued>>

\* The caller gives a value to a SAT variable, or takes it back.
SetValue ==
    \E bvar \in BVarIds, x \in {{}, {TRUE}, {FALSE}} :
        /\ x # current_assignment.values[bvar]
        /\ current_assignment' = [current_assignment EXCEPT !.values[bvar] = x]
        /\ UNCHANGED <<brancher, stats, enqueued, saved, ret, panic, NotBrancher>>

\* The solver met conflicts: Stats::num_conflicts grows.
CallConflicts(step, max_conflicts) ==
    /\ stats.num_conflicts + step <= max_conflicts
    /\ stats' = [stats EXCEPT !.num_conflicts = @ + step]
    /\ UNCHANGED <<brancher, current_assignment, enqueued, saved, ret, panic, NotBrancher>>

Enqueue == CallEnqueue(MaxInsertions)
BumpActivity == CallBumpActivity(MaxActivity)
BrancherSaveState == CallBrancherSaveState(MaxBrancherSaved)
Conflicts == CallConflicts(ConflictStep, MaxConflicts)

BrancherNext ==
    \/ Declare
    \/ Enqueue
    \/ NextDecision
    \/ BumpActivity
    \/ BrancherSaveState
    \/ BrancherRestoreLast
    \/ SetValue
    \/ Conflicts

SpecBrancher == BrancherInit /\ [][BrancherNext]_vars

\* ---- a caller that counts conflicts finely and never saves the brancher
RestartEnqueue == CallEnqueue(RestartInsertions)
RestartConflicts == CallConflicts(RestartStep, MaxRestartConflicts)

RestartNext ==
    \/ Declare
    \/ RestartEnqueue
    \/ NextDecision
    \/ SetValue
    \/ RestartConflicts

SpecRestart == BrancherInit /\ [][RestartNext]_vars

\* ---- the search loop of the solver: the brancher and the assignment are
\* saved and restored together
SearchCall(op, b, ca, status, var) ==
    /\ brancher' = b
    /\ current_assignment' = ca
    /\ ret' = Ret(op, status, var, <<>>, TRUE)
    /\ UNCHANGED <<panic, saved, NotBrancher>>

SearchEnqueue == CallEnqueue(SearchInsertions)
SearchBumpActivity == CallBumpActivity(SearchActivity)
SearchConflicts == CallConflicts(ConflictStep, MaxConflicts)

\* Propagation gives a value to a variable that has none, at the current level.
Imply ==
    \E lit \in {Lit_new(v, val) : v \in BVarIds, val \in BOOLEAN} :
        /\ current_assignment.values[lit.var] = {}
        /\ SearchCall("imply", brancher, Assignment_set(current_assignment, lit), "ok", -1)
        /\ UNCHANGED <<stats, enqueued>>

\* What the solver does with the decision r of the brancher: Restart undoes
\* every level, SetLiteral opens a level and assigns the literal.
Driven(r) ==
    IF r.decision.kind = "Restart"
    THEN SearchCall("next_decision", Brancher_restore(r.brancher, 0),
                    Assignment_restore(current_assignment, 0),
                    "Restart", -1)
    ELSE IF r.decision.kind = "SetLiteral"
    THEN SearchCall("next_decision", Brancher_save_state(r.brancher).brancher,
                    Assignment_set(Assignment_save_state(current_assignment), r.decision.lit),
                    "SetLiteral", r.decision.lit.var)
    ELSE SearchCall("next_decision", r.brancher, current_assignment, "None", -1)

Decide ==
    /\ Driven(next_decision(brancher, stats, current_assignment))
    /\ UNCHANGED <<stats, enqueued>>

\* A conflict takes the search back one level; the status tells whether the
\* brancher got variables back in its queue.
Backtracked(b) ==
    SearchCall("restore_last", b, Assignment_restore_last(current_assignment),
               IF b.bool_sel.heap.queue # brancher.bool_sel.heap.queue THEN "requeued" ELSE "ok",
               -1)

Backtrack ==
    /\ Brancher_num_saved(brancher) > 0
    /\ Backtracked(Brancher_restore_last(brancher))
    /\ UNCHANGED <<stats, enqueued>>

SearchNext ==
    \/ Declare
    \/ SearchEnqueue
    \/ SearchBumpActivity
    \/ SearchConflicts
    \/ Imply
    \/ Decide
    \/ Backtrack

SpecSearch == BrancherInit /\ [][SearchNext]_vars

\* ------------------------------------------------------ the DiffLogicTheory run
\* The solver drives the theory and its own assignment of the literals: it
\* binds literals to expressions, makes literals true (each one is a bool
\* event for the next propagate), and saves and restores both together.
NotTheory == <<stn, issued, dm, debug_assertions, brancher, stats, enqueued, saved, Others>>

IVarIds == 0..(TheoryIVars - 1)
\* The atoms of the expressions: the constants 0..MaxShift and the variables.
IAtoms == {IAtom_new(NoVar, shift) : shift \in 0..MaxShift} \cup {IAtom_new(var, 0) : var \in IVarIds}
TheoryLits == {Lit_new(v, val) : v \in BVarIds, val \in BOOLEAN}
ModelBounds == [IVarIds -> {<<l, u>> \in Bounds \X Bounds : l <= u}]

TheoryInit ==
    /\ NoBrancher
    /\ NoTheory
    /\ NoPlanner
    /\ ret = Ret("new", "ok", -1, <<>>, TRUE)
    /\ panic = ""
    /\ saved = <<>>
    /\ stn = IncSTN_new
    /\ issued = [edge |-> Edge_new(origin, origin, 0), id |-> None]
    /\ dm = DiscreteModel_new
    /\ debug_assertions = FALSE

\* A call of the theory that returned r = [theory, panic], status being what
\* it handed back, explanation the clause of a Contradiction.
TheoryCall(op, r, status, level, explanation) ==
    /\ panic = ""
    /\ IF r.panic # ""
       THEN /\ panic' = r.panic
            /\ ret' = Ret(op, "panic", -1, <<>>, TRUE)
            /\ UNCHANGED theory
       ELSE /\ theory' = r.theory
            /\ ret' = Ret(op, status, level, explanation, TRUE)
            /\ UNCHANGED panic
    /\ UNCHANGED NotTheory

TheoryBound(r) == TheoryCall("bind", r, r.result, -1, <<>>)

TheoryBind ==
    /\ NumUserPairs(theory.stn) < TheoryEdges
    /\ Cardinality(theory.mapping.literal) < 2 * TheoryBindings
    /\ \E literal \in TheoryLits, fun \in {"Leq", "Eq", "Neq"}, a \in IAtoms, b \in IAtoms,
          model_bounds \in ModelBounds :
         TheoryBound(Theory_bind(theory, literal, [fun |-> fun, a |-> a, b |-> b], model_bounds))
    /\ UNCHANGED <<current_assignment, model_events>>

\* The solver makes true a literal that the theory has atoms for.
TheoryAssign ==
    \E lit \in TheoryLits :
        /\ panic = ""
        /\ atoms_of(theory.mapping, lit) # <<>>
        /\ current_assignment.values[lit.var] = {}
        /\ current_assignment' = Assignment_set(current_assignment, lit)
        /\ model_events' = Append(model_events, lit)
        /\ UNCHANGED <<theory, ret, panic, NotTheory>>

TheoryPropagated(r) == TheoryCall("propagate", r, r.status, -1, r.clause)

TheoryPropagate ==
    /\ TheoryPropagated(Theory_propagate(theory, model_events))
    /\ model_events' = <<>>
    /\ UNCHANGED current_assignment

TheorySaved(r) ==
    /\ TheoryCall("save_state", r, "ok", r.level, <<>>)
    /\ current_assignment' = IF r.panic = "" THEN Assignment_save_state(current_assignment)
                             ELSE current_assignment

TheorySaveState ==
    /\ Theory_num_saved(theory) < MaxTheorySaved
    /\ TheorySaved(Theory_save_state(theory))
    /\ UNCHANGED model_events

\* The literals that are still true after the assignment ca was restored.
StillTrue(ca, bool_events) ==
    SelectSeq(bool_events, LAMBDA lit : ca.values[lit.var] = {lit.val})

TheoryRestored(r, ca) ==
    /\ TheoryCall("restore_last", r, "ok", -1, <<>>)
    /\ current_assignment' = IF r.panic = "" THEN ca ELSE current_assignment
    /\ model_events' = IF r.panic = "" THEN StillTrue(ca, model_events) ELSE model_events

TheoryRestoreLast ==
    /\ Theory_num_saved(theory) > 0
    /\ TheoryRestored(Theory_restore_last(theory), Assignment_restore_last(current_assignment))

TheoryNext ==
    \/ TheoryBind
    \/ TheoryAssign
    \/ TheoryPropagate
    \/ TheorySaveState
    \/ TheoryRestoreLast

SpecTheory == TheoryInit /\ [][TheoryNext]_vars

\* ------------------------------------------------- reference: path lengths
\* The edges of the active constraints, and those of the activations queued.
AllConstraints(s) ==
    UNION {{s.constraints[i].base, s.constraints[i].negated} : i \in 1..Len(s.constraints)}
ActiveEdges(s) == {c.edge : c \in {x \in AllConstraints(s) : x.active}}
MarkedEdges(s) ==
    {Index(s.constraints, ev.edge).edge :
        ev \in {x \in Range(s.pending_activations) : x.type = "ToActivate"}}
Reverse(E) == {Edge_new(e.target, e.source, e.weight) : e \in E}
SetMin(S) == CHOOSE x \in S : \A y \in S : x <= y

\* One round of Bellman-Ford over the edges E; W_MAX stands for "no path".
Relax(E, d) ==
    [v \in DOMAIN d |->
        SetMin({d[v]} \cup {d[e.source] + e.weight :
                               e \in {x \in E : x.target = v /\ d[x.source] # W_MAX}})]
RECURSIVE BellmanFord(_, _, _)
BellmanFord(E, d, rounds) ==
    IF rounds = 0 THEN d ELSE BellmanFord(E, Relax(E, d), rounds - 1)
\* Lengths of the shortest paths from src, in a graph of n nodes without negative cycle.
ShortestPaths(E, n, src) ==
    BellmanFord(E, [v \in 0..(n - 1) |-> IF v = src THEN 0 ELSE W_MAX], n - 1)
\* A cycle of strictly negative length exists (a negative self-loop is one).
HasNegativeCycle(E, n) ==
    LET d == BellmanFord(E, [v \in 0..(n - 1) |-> 0], n)
    IN Relax(E, d) # d

\* --------------------------------------------------------------- properties
\* Every debug_assert! of IncSTN met so far held: both builds behave alike.
STN_DebugAssertionsHold == ret.dbg_ok

\* C1: whenever propagate_all returns Consistent, ub(tp) is the length of the
\* shortest path from the origin to tp and lb(tp) is minus the length of the
\* shortest path from tp to the origin over the active edges (bound edges
\* included), no activation is left in the queue, and every active edge
\* (s,t,w) has ub(t) <= ub(s)+w and lb(s) >= lb(t)-w.
C1_BoundsAreShortestPaths ==
    Usable =>
      LET r == propagate_all(stn)
      IN (r.panic = "" /\ r.status = "Consistent") =>
           LET s == r.stn
               E == ActiveEdges(s)
               f == ShortestPaths(E, num_nodes(s), origin)
               b == ShortestPaths(Reverse(E), num_nodes(s), origin)
           IN /\ s.pending_activations = <<>>
              /\ \A tp \in Nodes(s) : ub(s, tp) = f[tp] /\ lb(s, tp) = -b[tp]
              /\ \A e \in E : /\ ub(s, e.target) <= ub(s, e.source) + e.weight
                              /\ lb(s, e.source) >= lb(s, e.target) - e.weight

\* propagate_all returned Consistent and an upper bound is now caused by a
\* constraint of the caller that leaves a timepoint other than the origin.
C1_Witness ==
    /\ ret.op = "propagate_all" /\ ret.status = "Consistent"
    /\ \E tp \in Nodes(stn) :
         LET c == stn.distances[tp + 1].forward_cause
         IN /\ c \in UserIds(stn)
            /\ Index(stn.constraints, c).edge.source # origin

\* C2: from a consistent, propagated network, propagate_all returns
\* Inconsistent exactly when the active edges together with the edges marked
\* active contain a cycle of strictly negative weight (a negative self-loop
\* is one), and Consistent otherwise; it never panics.
C2_InconsistentIffNegativeCycle ==
    Usable =>
      LET r == propagate_all(stn)
      IN /\ r.panic = ""
         /\ r.status \in {"Consistent", "Inconsistent"}
         /\ r.status = "Inconsistent"
              <=> HasNegativeCycle(ActiveEdges(stn) \cup MarkedEdges(stn), num_nodes(stn))

\* propagate_all reported a cycle of several edges.
C2_Witness ==
    /\ ret.op = "propagate_all" /\ ret.status = "Inconsistent"
    /\ Len(ret.explanation) >= 2

\* The last call was a propagate_all that returned NetworkStatus::Inconsistent.
Reported == ret.op = "propagate_all" /\ ret.status = "Inconsistent"
\* The edges of the reported list, in order.
ReportedEdges == [i \in 1..Len(ret.explanation) |-> Index(stn.constraints, ret.explanation[i]).edge]

\* C3: every edge list returned in Inconsistent holds only active edges (or
\* the self-loop being activated), holds no edge twice, and its weights sum
\* to a strictly negative number.
C3_ReportedCycleIsSimple ==
    Reported =>
      /\ \A i \in 1..Len(ret.explanation) :
           \/ active(stn, ret.explanation[i])
           \/ Len(ret.explanation) = 1 /\ ReportedEdges[1].source = ReportedEdges[1].target
      /\ \A i, j \in 1..Len(ret.explanation) :
           i # j => ret.explanation[i] # ret.explanation[j]
      /\ SumWeights(stn.constraints, ret.explanation) < 0

\* C4: in every reported list each edge is chained to the next head-to-tail,
\* in one direction along the whole list, and the last is chained to the first.
C4_ReportedCycleIsChained ==
    Reported =>
      LET x == ReportedEdges
          n == Len(x)
      IN \/ /\ \A i \in 1..(n - 1) : x[i].target = x[i + 1].source
            /\ x[n].target = x[1].source
         \/ /\ \A i \in 1..(n - 1) : x[i].source = x[i + 1].target
            /\ x[n].source = x[1].target

\* C5: undo_to_last_backtrack_point gives back what was observable just
\* before the matching set_backtrack_point (timepoints, bounds, interned
\* edges and ids, active flags, adjacency lists, level, empty queue) and
\* returns the level it closed, whatever was done since, innermost first.
C5_UndoRestores ==
    (panic = "" /\ stn.level > 0) =>
      LET r == undo_to_last_backtrack_point(stn)
      IN /\ r.panic = ""
         /\ r.result = stn.level
         /\ Observable(r.stn) = Last(saved)
         /\ r.stn.pending_activations = <<>>
         /\ r.stn.level = stn.level - 1

\* The inner of two backtrack points was undone after a propagation that
\* found the network inconsistent.
C5_Witness ==
    /\ ret.op = "undo_to_last_backtrack_point" /\ ret.status = "Some" /\ ret.level = 2
    /\ \E tp \in Nodes(stn) : stn.distances[tp + 1].forward_pending_update

\* The last logged call returned an id, and the pair it designates still
\* holds the edge of that call.
StillInterned ==
    /\ issued.id \in UserIds(stn)
    /\ Index(stn.constraints, issued.id).edge = issued.edge
\* How the id of a second call on edge e relates to the id of the logged call.
SecondCall(e) ==
    LET r == add_inactive_constraint(stn, e.source, e.target, e.weight, FALSE)
    IN /\ r.id = issued.id <=> e = issued.edge
       /\ (r.id.base_id = issued.id.base_id /\ r.id.negated # issued.id.negated)
            <=> e = negated(issued.edge)
       /\ (e # issued.edge /\ e # negated(issued.edge)) => r.id.base_id # issued.id.base_id
UserEdges == {Edge_new(st[1], st[2], w) : st \in Nodes(stn) \X Nodes(stn), w \in Weights}

\* C6 as stated: any two calls of add_edge / add_inactive_edge, in any
\* reachable state, return the same id exactly when they are given the same
\* edge, ids of the same base and opposite polarity exactly when one edge is
\* the negation of the other, and different bases otherwise.
C6_AnyTwoCalls ==
    (Usable /\ issued.id # None) => \A e \in UserEdges : SecondCall(e)

\* C6 amended: the same, for two calls between which no undo removed the
\* pair of the first.
C6_CallsOnInternedEdges ==
    (Usable /\ issued.id # None /\ StillInterned) => \A e \in UserEdges : SecondCall(e)

\* An edge interned before a backtrack point is still interned after the
\* undo that removed a later pair.
C6_Witness ==
    /\ ret.op = "undo_to_last_backtrack_point" /\ ret.status = "Some"
    /\ issued.id # None /\ StillInterned

\* C7: in every pair base.edge and negated.edge are the negation of each
\* other, base.edge is canonical and negated.edge is not; the lookup table
\* has one entry per pair that is not hidden, from its canonical edge to its
\* index, and no other entry.
C7_PairsAndLookup ==
    /\ \A i \in 1..Len(stn.constraints) :
         LET p == stn.constraints[i]
         IN /\ p.base.edge = negated(p.negated.edge)
            /\ p.negated.edge = negated(p.base.edge)
            /\ is_canonical(p.base.edge)
            /\ ~is_canonical(p.negated.edge)
            /\ ~p.hidden => lookup_get(stn.lookup, p.base.edge) = i - 1
    /\ \A x \in stn.lookup :
         /\ x.v + 1 \in 1..Len(stn.constraints)
         /\ ~stn.constraints[x.v + 1].hidden
         /\ stn.constraints[x.v + 1].base.edge = x.k
    /\ \A x, y \in stn.lookup : x.k = y.k => x = y

\* After an undo the database holds a pair whose edge was given in its
\* negated form.
C7_Witness ==
    /\ ret.op = "undo_to_last_backtrack_point" /\ ret.status = "Some"
    /\ \E i \in 1..Len(stn.constraints) :
         /\ ~stn.constraints[i].hidden
         /\ issued.id = EdgeID_new(i - 1, TRUE)

\* C8: in every reachable state with no edge activation pending,
\* set_backtrack_point succeeds, raises the level by one and returns it.
C8_SetBacktrackPointSucceeds ==
    (Usable /\ NoActivationPending(stn)) =>
      LET r == set_backtrack_point(stn)
      IN /\ r.panic = ""
         /\ r.stn.level = stn.level + 1

\* The literal l and the domain of the variable b bound to it agree.
Synchronised(d, b, l) ==
    /\ value(d, l) = "true" => domain_of(d, b).lb >= 1
    /\ value(d, l) = "false" => domain_of(d, b).ub <= 0
    /\ domain_of(d, b).lb = 1 => value(d, l) = "true"
    /\ domain_of(d, b).ub = 0 => value(d, l) = "false"
\* A call that returned r = [dm, panic] went through and left every bound
\* variable agreeing with its literal.
Synchronises(r) ==
    /\ r.panic = ""
    /\ \A x \in r.dm.binding : Synchronised(r.dm, x.k, x.v)

\* C9: every Boolean variable b bound to a literal l of either polarity
\* agrees with it (value(l) true iff lb(b) = 1, false iff ub(b) = 0), and
\* set on the literal or its negation, set_lb(b, 1) and set_ub(b, 0) keep
\* them agreeing within the call.
C9_LiteralAndDomainAgree ==
    panic = "" =>
      \A x \in dm.binding :
        /\ Synchronised(dm, x.k, x.v)
        /\ value(dm, x.v) = "none" =>
             /\ Synchronises(set(dm, x.v, debug_assertions))
             /\ Synchronises(set(dm, Lit_not(x.v), debug_assertions))
             /\ Synchronises(set_lb(dm, x.k, 1, debug_assertions))
             /\ Synchronises(set_ub(dm, x.k, 0, debug_assertions))

\* C10: lb(v) <= ub(v) for every variable v in every reachable state.
C10_DomainsNotEmpty ==
    \A v \in Vars(dm) : domain_of(dm, v).lb <= domain_of(dm, v).ub

\* The integer variable that the SAT variable of lit stands for agrees with
\* the value just given to lit.
Mirrored(d, lit) ==
    RefMap_contains(d.sat_to_int, lit.var) =>
        LET b == RefMap_get(d.sat_to_int, lit.var).variable
        IN Synchronised(d, b, literal_of(d, b))

\* C11: set(lit) fails when the opposite value is already set and then leaves
\* values, domains and both trails as they were; it changes nothing when the
\* same value is already set; on an unset variable it records the value,
\* pushes exactly one literal-trail event and mirrors the value on the domain
\* of the integer variable the literal is bound to.
C11_SetContract ==
    panic = "" =>
      \A lit \in Lits :
        LET r == set(dm, lit, debug_assertions)
        IN /\ value(dm, lit) = "false" => r.panic # "" /\ r.dm = dm
           /\ value(dm, lit) = "true" => r.panic = "" /\ r.dm = dm
           /\ value(dm, lit) = "none" =>
                /\ r.panic = ""
                /\ value(r.dm, lit) = "true"
                /\ Len(r.dm.lit_trail.events) = Len(dm.lit_trail.events) + 1
                /\ Mirrored(r.dm, lit)

\* What save_state is to give back, as the model d now shows it.
Restored(d) == [DMSnapshot(d) EXCEPT !.written = TRUE]

\* restore_last called until num_saved() = saved_id; [dm, panic].
RECURSIVE RestoreLastUntil(_, _, _)
RestoreLastUntil(d, saved_id, dbg) ==
    IF num_saved(d) <= saved_id THEN [dm |-> d, panic |-> ""]
    ELSE LET r == restore_last(d, dbg)
         IN IF r.panic # "" THEN [dm |-> r.dm, panic |-> r.panic]
            ELSE RestoreLastUntil(r.dm, saved_id, dbg)

\* C12: restore_last gives back the domains, the literal values and both
\* trails of the matching save_state whatever set, set_lb and set_ub did
\* since; restore(level) does what restore_last does when it is called until
\* num_saved() = level; and the two trails always have as many save points.
C12_RestoreLastRestores ==
    panic = "" =>
      /\ Q_num_saved(dm.trail) = Q_num_saved(dm.lit_trail)
      /\ Len(saved) = num_saved(dm)
      /\ (num_saved(dm) > 0 /\ Last(saved).written) =>
            LET r == restore_last(dm, debug_assertions)
            IN r.panic = "" /\ Restored(r.dm) = Last(saved)
      /\ \A level \in 0..num_saved(dm) :
            LET a == restore(dm, level, debug_assertions)
                b == RestoreLastUntil(dm, level, debug_assertions)
            IN a.panic = b.panic /\ (a.panic = "" => a.dm = b.dm /\ num_saved(a.dm) = level)

\* restore_last closed an inner save point under which only set, set_lb and
\* set_ub were called, on a model with a bound variable: integer events of
\* the outer save point are still on the trail and no literal has a value.
C12_Witness ==
    /\ ret.op = "restore_last" /\ panic = ""
    /\ num_saved(dm) >= 1 /\ Last(saved).written
    /\ dm.binding # {}
    /\ dm.values = {}
    /\ Len(dm.trail.events) > 0

\* C13: a Boolean variable has at most one literal: bind on a bound variable
\* fails and leaves the binding as it was, and intern_variable_with returns
\* the same literal on every call for a variable, invoking its closure only
\* when the variable has no literal yet.
C13_OneLiteralPerVariable ==
    panic = "" =>
      /\ \A x \in dm.binding, y \in dm.binding : x.k = y.k => x = y
      /\ \A k \in BVars(dm), made \in Lits :
           LET first == intern_variable_with(dm, k, made)
           IN /\ literal_of(dm, k) # NoLit =>
                   /\ bind(dm, k, made).panic # "" /\ bind(dm, k, made).dm = dm
                   /\ ~first.invoked /\ first.lit = literal_of(dm, k) /\ first.dm = dm
              /\ literal_of(dm, k) = NoLit =>
                   /\ first.invoked /\ first.panic = "" /\ first.lit = made
                   /\ literal_of(first.dm, k) = made
              /\ \A other \in Lits :
                   LET second == intern_variable_with(first.dm, k, other)
                   IN ~second.invoked /\ second.lit = first.lit /\ second.dm = first.dm

\* A variable was bound, and another Boolean variable has no literal yet.
C13_Witness ==
    /\ ret.op = "bind" /\ panic = ""
    /\ \E k \in BVars(dm) : literal_of(dm, k) # NoLit
    /\ \E k \in BVars(dm) : literal_of(dm, k) = NoLit

\* C14: intern_expr_with invokes make_lit and records its literal on the first
\* call for a handle only; every later call returns the recorded literal
\* without invoking make_lit; save_state, restore_last and restore keep the
\* association.
C14_InternExprIdempotent ==
    panic = "" =>
      \A handle \in ExprHandles :
        /\ \A made \in Lits :
             LET first == intern_expr_with(dm, handle, made)
             IN /\ interned_expr(dm, handle) = NoLit =>
                     first.invoked /\ first.lit = made /\ interned_expr(first.dm, handle) = made
                /\ interned_expr(dm, handle) # NoLit =>
                     ~first.invoked /\ first.lit = interned_expr(dm, handle) /\ first.dm = dm
                /\ \A other \in Lits :
                     LET second == intern_expr_with(first.dm, handle, other)
                     IN ~second.invoked /\ second.lit = first.lit /\ second.dm = first.dm
        /\ interned_expr(save_state(dm, debug_assertions).dm, handle) = interned_expr(dm, handle)
        /\ num_saved(dm) > 0 =>
             /\ interned_expr(restore_last(dm, debug_assertions).dm, handle)
                  = interned_expr(dm, handle)
             /\ interned_expr(restore(dm, 0, debug_assertions).dm, handle)
                  = interned_expr(dm, handle)

\* restore_last closed the inner save point of a model that holds an interned
\* expression and a literal with a value.
C14_Witness ==
    /\ ret.op = "restore_last" /\ panic = ""
    /\ \E handle \in ExprHandles : interned_expr(dm, handle) # NoLit
    /\ Len(saved) >= 1
    /\ dm.values # {}

\* ------------------------------------------------------------- Brancher claims
Queue(b) == b.bool_sel.heap.queue
Unassigned(v) == value_of_sat_variable(current_assignment, v) = {}
\* The events next_decision pushed on the trail of b, b2 being the brancher
\* after the call.
Pushed(b, b2) == SubSeq(b2.trail.events, Len(b.trail.events) + 1, Len(b2.trail.events))

\* What C15 says of a call of next_decision that took the brancher from b to
\* r.brancher and returned r.decision.
NextDecisionContract(b, r) ==
    /\ r.decision.kind = "SetLiteral" =>
           /\ r.decision.lit.var \in Queue(b)
           /\ Unassigned(r.decision.lit.var)
           /\ r.decision.lit.var \in Queue(r.brancher)
    /\ r.decision.kind = "None" <=> ~ \E v \in Queue(b) : Unassigned(v)
    /\ Queue(r.brancher) \subseteq Queue(b)
    /\ \A v \in Queue(b) \ Queue(r.brancher) : ~Unassigned(v)
    /\ SubSeq(r.brancher.trail.events, 1, Len(b.trail.events)) = b.trail.events
    /\ r.brancher.trail.backtrack_points = b.trail.backtrack_points
    /\ Len(Pushed(b, r.brancher)) = Cardinality(Queue(b) \ Queue(r.brancher))
    /\ {Pushed(b, r.brancher)[i] : i \in DOMAIN Pushed(b, r.brancher)}
           = {Removal(v) : v \in Queue(b) \ Queue(r.brancher)}
    /\ r.decision.kind = "Restart" =>
           /\ \E v \in Queue(b) : Unassigned(v)
           /\ \A v \in Queue(b) : Unassigned(v) => v \in Queue(r.brancher)

\* C15: next_decision returns SetLiteral(l) only for a variable that is in the
\* queue and has no value; it returns None if and only if no queued variable
\* is without a value; the variables it skips have a value, leave the queue and
\* are each recorded once as a Removal on the trail, which is otherwise left
\* as it was; the variable selected, and every variable without a value when
\* Restart is returned, stays in the queue.
C15_NextDecisionSelectsUnassigned ==
    NextDecisionContract(brancher, next_decision(brancher, stats, current_assignment))

\* next_decision skipped a variable that has a value and then selected one
\* that has none: the first is off the queue and on the trail, the second is
\* still queued.
C15_Witness ==
    /\ ret.op = "next_decision"
    /\ ret.status = "SetLiteral"
    /\ ret.level \in Queue(brancher)
    /\ Unassigned(ret.level)
    /\ brancher.trail.events # <<>>
    /\ Last(brancher.trail.events).change = "Removal"
    /\ Last(brancher.trail.events).var \notin Queue(brancher)

\* What C16 says of a call of next_decision that took the brancher from b to
\* r.brancher and returned r.decision.
RestartContract(b, r) ==
    /\ r.decision.kind = "Restart" <=>
           /\ \E v \in Queue(b) : Unassigned(v)
           /\ stats.num_conflicts - b.conflicts_at_last_restart >= b.params.allowed_conflicts
    /\ r.decision.kind = "Restart" =>
           /\ r.brancher.conflicts_at_last_restart = stats.num_conflicts
           /\ 2 * r.brancher.params.allowed_conflicts <= 3 * b.params.allowed_conflicts
           /\ 3 * b.params.allowed_conflicts < 2 * (r.brancher.params.allowed_conflicts + 1)
           /\ r.brancher.params.allowed_conflicts > b.params.allowed_conflicts
    /\ r.decision.kind # "Restart" =>
           /\ r.brancher.conflicts_at_last_restart = b.conflicts_at_last_restart
           /\ r.brancher.params.allowed_conflicts = b.params.allowed_conflicts

\* C16: next_decision returns Restart exactly when a queued variable has no
\* value and num_conflicts - conflicts_at_last_restart >= allowed_conflicts; it
\* then sets conflicts_at_last_restart to num_conflicts and allowed_conflicts
\* to the integer part of 1.5 times allowed_conflicts, which is strictly more
\* with the default parameters; any other call leaves both fields unchanged.
C16_RestartWhenAllowedConflictsReached ==
    RestartContract(brancher, next_decision(brancher, stats, current_assignment))

\* next_decision returned Restart and the product by 1.5 was truncated (225
\* has become 337).
C16_Witness ==
    /\ ret.op = "next_decision"
    /\ ret.status = "Restart"
    /\ brancher.conflicts_at_last_restart = stats.num_conflicts
    /\ \E a \in DefaultAllowedConflicts..MaxRestartConflicts :
           /\ 2 * brancher.params.allowed_conflicts < 3 * a
           /\ 3 * a < 2 * (brancher.params.allowed_conflicts + 1)

\* C17: when the brancher is saved and restored together with the assignment,
\* every variable that was enqueued and has no value is in the queue, and
\* next_decision does not return None while there is such a variable.
C17_UnassignedStayQueued ==
    /\ Len(current_assignment.saved) = Brancher_num_saved(brancher)
    /\ \A v \in enqueued : Unassigned(v) => v \in Queue(brancher)
    /\ (\E v \in enqueued : Unassigned(v)) =>
           next_decision(brancher, stats, current_assignment).decision.kind # "None"

\* A backtrack has put back in the queue a variable that next_decision had
\* dropped, and that has lost its value.
C17_Witness ==
    /\ ret.op = "restore_last"
    /\ ret.status = "requeued"
    /\ \E v \in enqueued : Unassigned(v) /\ v \in Queue(brancher)

\* The variables of the events of the given kind that were pushed on the trail
\* of b since its last save point.
ChangedSinceSave(b, kind) ==
    {b.trail.events[i].var : i \in {j \in DOMAIN b.trail.events :
                                      /\ j > Last(b.trail.backtrack_points)
                                      /\ b.trail.events[j].change = kind}}

\* C18 as stated: save_state, then any calls of enqueue, next_decision and
\* bump_activity, then restore_last leave the queued variables, the
\* activities, allowed_conflicts and conflicts_at_last_restart as they were
\* before save_state.
SameAsSaved(b2, pre) ==
    /\ Queue(b2) = pre.queue
    /\ \A v \in DOMAIN pre.activity : b2.bool_sel.heap.priority[v] = pre.activity[v]
    /\ b2.params.allowed_conflicts = pre.allowed_conflicts
    /\ b2.conflicts_at_last_restart = pre.conflicts_at_last_restart

C18_RestoreLastRestoresAll ==
    Brancher_num_saved(brancher) > 0 =>
        SameAsSaved(Brancher_restore_last(brancher), Last(saved))

\* What restore_last does to a brancher b that was saved in the state pre.
\* A variable queued after restore_last and not at the save was passed to
\* enqueue: with nested save points its Insertion event may already have left
\* the trail.
RequeuedOnly(b, pre, b2) ==
    /\ pre.queue \subseteq Queue(b2)
    /\ Queue(b2) = Queue(b) \cup ChangedSinceSave(b, "Removal")
    /\ Queue(b2) \ pre.queue \subseteq enqueued
    /\ b2.bool_sel.heap.priority = b.bool_sel.heap.priority
    /\ b2.params = b.params
    /\ b2.conflicts_at_last_restart = b.conflicts_at_last_restart
    /\ b2.trail.events = SubSeq(b.trail.events, 1, Last(b.trail.backtrack_points))
    /\ b2.trail.backtrack_points = Front(b.trail.backtrack_points)

\* C18, amended: restore_last puts back in the queue the variables removed
\* since the matching save_state, so that every variable queued at the save is
\* queued again; the variables enqueued since the save stay queued, and the
\* activities, allowed_conflicts and conflicts_at_last_restart keep the values
\* they had just before restore_last; the trail is the one of the save.
C18_RestoreLastRequeues ==
    Brancher_num_saved(brancher) > 0 =>
        /\ Len(saved) = Brancher_num_saved(brancher)
        /\ RequeuedOnly(brancher, Last(saved), Brancher_restore_last(brancher))

\* restore_last has put a removed variable back in the queue.
C18_Witness ==
    /\ ret.op = "restore_last"
    /\ ret.status = "requeued"
    /\ Brancher_num_saved(brancher) = 0
    /\ Queue(brancher) # {}
    /\ \E v \in Queue(brancher) : ~Unassigned(v)

\* ------------------------------------------------------ DiffLogicTheory claims
\* C19: for a theory driven in lockstep with the solver, num_saved() is the
\* number of save_state calls not yet undone and the backtrack level of the
\* network; save_state succeeds whenever it is called, right after a bind that
\* created timepoints included, and returns the number of states saved before
\* the call; restore_last undoes exactly one backtrack point of the network.
C19_LockstepSaveAndRestore ==
    panic = "" =>
        /\ Theory_num_saved(theory) = Len(current_assignment.saved)
        /\ Theory_num_saved(theory) = theory.stn.level
        /\ Theory_save_state(theory).panic = ""
        /\ Theory_save_state(theory).level = Theory_num_saved(theory)
        /\ Theory_num_saved(theory) > 0 =>
               /\ Theory_restore_last(theory).panic = ""
               /\ Theory_restore_last(theory).theory.stn.level = theory.stn.level - 1

\* The literals of a clause, and whether a literal is true in the assignment
\* of the solver.
LitsOf(clause) == {clause[i] : i \in DOMAIN clause}
IsTrue(lit) == current_assignment.values[lit.var] = {lit.val}
\* The edges of a reported cycle that are bounds of a timepoint in the network s.
HiddenEdges(s, x) == {x[i] : i \in {j \in DOMAIN x : s.constraints[x[j].base_id + 1].hidden}}

\* What C20 says of a propagate that returned r.
ContradictionContract(th, r) ==
    /\ \A e \in HiddenEdges(r.theory.stn, r.explanation) :
           Mapping_literal_of(th.mapping, e) = NoLit
    /\ LitsOf(r.clause) =
           {Lit_not(Mapping_literal_of(th.mapping, e)) :
               e \in LitsOf(r.explanation) \ HiddenEdges(r.theory.stn, r.explanation)}
    /\ \A lit \in LitsOf(r.clause) : IsTrue(Lit_not(lit))

\* C20: when propagate returns Contradiction(clause), the clause is the set of
\* the negations of the literals bound to the edges of the reported cycle, the
\* hidden bound edges have no literal and contribute nothing, and every literal
\* whose negation is in the clause is true in the current assignment.
C20_ClauseIsFalsified ==
    (panic = "" /\ Theory_propagate(theory, model_events).panic = ""
                /\ Theory_propagate(theory, model_events).status = "Contradiction") =>
        ContradictionContract(theory, Theory_propagate(theory, model_events))


\* ------------------------------------------------ inconsistent sets and updates
\* C21: the edge list returned in Inconsistent by propagate_all holds no edge
\* made by add_timepoint for a lower or upper bound (push_edge with hidden =
\* true), only ids that add_edge or add_inactive_edge returned to the caller.
C21_InternalEdgesOmitted ==
    Reported =>
      /\ HiddenEdges(stn, ret.explanation) = {}
      /\ Range(ret.explanation) \subseteq UserIds(stn)


\* NetworkUpdates::next that returns no NewLB event.
RECURSIVE NetworkUpdates_upper_only(_, _)
NetworkUpdates_upper_only(s, point_in_trail) ==
    IF point_in_trail >= Len(s.trail) THEN <<>>
    ELSE LET ev == s.trail[point_in_trail + 1]
             rest == NetworkUpdates_upper_only(s, point_in_trail + 1)
         IN IF ev.type = "ForwardUpdate"
            THEN <<[tp |-> ev.node, event |-> "NewUB", value |-> ub(s, ev.node)]>> \o rest
            ELSE rest

\* <NetworkUpdates as Iterator>::next called until it returns None on the
\* network s: the VarEvents of the trail entries from point_in_trail on.
RECURSIVE NetworkUpdates_next(_, _)
NetworkUpdates_next(s, point_in_trail) ==
    IF point_in_trail >= Len(s.trail) THEN <<>>
    ELSE LET ev == s.trail[point_in_trail + 1]
             rest == NetworkUpdates_next(s, point_in_trail + 1)
         IN IF ev.type = "ForwardUpdate"
            THEN <<[tp |-> ev.node, event |-> "NewUB", value |-> ub(s, ev.node)]>> \o rest
            ELSE IF ev.type = "BackwardUpdate"
            THEN <<[tp |-> ev.node, event |-> "NewLB", value |-> lb(s, ev.node)]>> \o rest
            ELSE rest

\* The updates that propagate_all exposes when it returns r on the network s:
\* NetworkUpdates { network: self, point_in_trail: trail_end_before_propagation }.
exposed_updates(s, r) == NetworkUpdates_next(r.stn, Len(s.trail))

\* The updates x hold an event of the given kind for the timepoint tp.
HasEvent(x, tp, kind) == \E i \in DOMAIN x : x[i].tp = tp /\ x[i].event = kind

\* What the claim says of the updates x exposed by a propagate_all that took
\* the network s to the network s2.
UpdatesContract(s, s2, x) ==
    /\ \A tp \in Nodes(s) :
         /\ HasEvent(x, tp, "NewUB") <=> ub(s2, tp) < ub(s, tp)
         /\ HasEvent(x, tp, "NewLB") <=> lb(s2, tp) > lb(s, tp)
    /\ \A i \in DOMAIN x :
         /\ x[i].tp \in Nodes(s)
         /\ x[i].value = IF x[i].event = "NewUB" THEN ub(s2, x[i].tp) ELSE lb(s2, x[i].tp)
    /\ SubSeq(s2.trail, 1, Len(s.trail)) = s.trail

\* C22: when propagate_all returns Consistent, its updates hold a NewUB event
\* for a timepoint iff its upper bound was lowered during the call and a NewLB
\* event iff its lower bound was raised during the call; each event carries
\* the value of the bound at the end of the call, and no event comes from a
\* change made before the call.
C22_UpdatesAreThisCallsChanges ==
    Usable =>
      LET r == propagate_all(stn)
      IN r.status = "Consistent" /\ r.panic = "" =>
           UpdatesContract(stn, r.stn, exposed_updates(stn, r))

\* A propagate_all has just returned Consistent after changing bounds in both
\* directions, on a trail that held bound changes of earlier calls.
C22_Witness ==
    /\ ret.op = "propagate_all"
    /\ ret.status = "Consistent"
    /\ stn.trail # <<>>
    /\ Last(stn.trail).type \in {"ForwardUpdate", "BackwardUpdate"}
    /\ \E i, j \in DOMAIN stn.trail :
         /\ stn.trail[i].type = "ForwardUpdate"
         /\ stn.trail[j].type = "BackwardUpdate"
    /\ \E i, j \in DOMAIN stn.trail :
         /\ i < j
         /\ stn.trail[i].type \in {"ForwardUpdate", "BackwardUpdate"}
         /\ stn.trail[j].type = "EdgeActivated"

\* ------------------------------------------------------------ lcp: the encoder
\* Atoms and expressions of aries_model::lang are terms: a leaf is a constant
\* or a variable named by its kind and its index, an expression is a function
\* name over its arguments.  Expressions are interned structurally, so that
\* two expressions are the same handle iff they are the same term.
Term(fun, id, args) == [fun |-> fun, id |-> id, args |-> args]
SymConst(id) == Term("sym", id, <<>>)
SymVar(id) == Term("sym_var", id, <<>>)
IVar(id) == Term("ivar", id, <<>>)
BVar(id) == Term("bvar", id, <<>>)
BTrue == Term("true", 0, <<>>)
Expr(fun, args) == Term(fun, 0, args)

\* impl Not for BAtom
Model_not(a) == IF a.fun = "not" THEN a.args[1] ELSE Expr("not", <<a>>)
Model_leq(a, b) == Expr("leq", <<a, b>>)
Model_lt(a, b) == Expr("lt", <<a, b>>)
Model_eq(a, b) == Expr("eq", <<a, b>>)
Model_neq(a, b) == Expr("neq", <<a, b>>)
Model_implies(a, b) == Expr("implies", <<a, b>>)
Model_or(disjuncts) == Expr("or", disjuncts)
Model_and(conjuncts) == Expr("and", conjuncts)

\* The values a symbolic atom can take in the model.
sym_domain_of(model, a) == IF a.fun = "sym" THEN {a.id} ELSE model.sym_domains[a.id]
\* Model::unifiable: the two atoms can take the same value.
Model_unifiable(model, a, b) == sym_domain_of(model, a) \cap sym_domain_of(model, b) # {}

\* Iterator::flat_map over a vector of vectors.
RECURSIVE Flatten(_)
Flatten(seqs) == IF seqs = <<>> THEN <<>> ELSE Head(seqs) \o Flatten(Tail(seqs))

\* ChronicleOrigin
Original == [kind |-> "Original", template_id |-> 0, instantiation_id |-> 0]
FreeAction(template_id, instantiation_id) ==
    [kind |-> "FreeAction", template_id |-> template_id,
     instantiation_id |-> instantiation_id]

\* ConstraintType
InTable(table_id) == [kind |-> "InTable", table_id |-> table_id]
LT == [kind |-> "LT", table_id |-> 0]
EQ == [kind |-> "EQ", table_id |-> 0]
NEQ == [kind |-> "NEQ", table_id |-> 0]

\* Table::lines: the chunks of line_size elements of inner.
Table_lines(table) ==
    [l \in 1..(Len(table.inner) \div table.line_size) |->
        SubSeq(table.inner, (l - 1) * table.line_size + 1, l * table.line_size)]

\* fn effects: (presence, effect) for the effects of every chronicle, in order.
effects(pb) ==
    Flatten([c \in DOMAIN pb.chronicles |->
                [k \in DOMAIN pb.chronicles[c].chronicle.effects |->
                    [prez |-> pb.chronicles[c].chronicle.presence,
                     eff |-> pb.chronicles[c].chronicle.effects[k]]]])

\* fn conditions: (presence, condition) for the conditions of every chronicle.
conditions(pb) ==
    Flatten([c \in DOMAIN pb.chronicles |->
                [k \in DOMAIN pb.chronicles[c].chronicle.conditions |->
                    [prez |-> pb.chronicles[c].chronicle.presence,
                     cond |-> pb.chronicles[c].chronicle.conditions[k]]]])

\* let eff_ends = effs.iter().map(|_| model.new_ivar(ORIGIN, HORIZON, "")):
\* new_ivar gives the next index of the dense index space of the variables.
eff_ends(pb) ==
    [i \in DOMAIN effects(pb) |-> IVar(pb.model.num_ivars + i - 1)]

\* the closure unifiable_sv of encode
unifiable_sv(model, sv1, sv2) ==
    IF Len(sv1) # Len(sv2) THEN FALSE
    ELSE \A k \in DOMAIN sv1 : Model_unifiable(model, sv1[k], sv2[k])

\* for each condition, make sure the end is after the start;
\* for each effect, make sure the three time points are ordered
interval_constraints(pb) ==
    [k \in DOMAIN conditions(pb) |->
        Model_leq(conditions(pb)[k].cond.start, conditions(pb)[k].cond.end)]
    \o Flatten([i \in DOMAIN effects(pb) |->
                  <<Model_leq(effects(pb)[i].eff.persistence_start, eff_ends(pb)[i]),
                    Model_leq(effects(pb)[i].eff.transition_start,
                              effects(pb)[i].eff.persistence_start)>>])

\* The coherence clause of the effects i < j, whose ends are swapped.
coherence_clause_swapped_ends(pb, i, j) ==
    LET e1 == effects(pb)[i]
        e2 == effects(pb)[j]
    IN Model_or(<<Model_not(e1.prez), Model_not(e2.prez)>>
                \o Flatten([idx \in DOMAIN e1.eff.state_var |->
                              IF e1.eff.state_var[idx] # e2.eff.state_var[idx]
                              THEN <<Model_neq(e1.eff.state_var[idx], e2.eff.state_var[idx])>>
                              ELSE <<>>])
                \o <<Model_leq(eff_ends(pb)[i], e1.eff.transition_start),
                     Model_leq(eff_ends(pb)[j], e2.eff.transition_start)>>)

\* The body of the loops over the pairs of effects i < j, for a pair that is
\* not skipped: the clause pushed on constraints.
coherence_clause(pb, i, j) ==
    LET e1 == effects(pb)[i]
        e2 == effects(pb)[j]
    IN Model_or(<<Model_not(e1.prez), Model_not(e2.prez)>>
                \o Flatten([idx \in DOMAIN e1.eff.state_var |->
                              IF e1.eff.state_var[idx] # e2.eff.state_var[idx]
                              THEN <<Model_neq(e1.eff.state_var[idx], e2.eff.state_var[idx])>>
                              ELSE <<>>])
                \o <<Model_leq(eff_ends(pb)[j], e1.eff.transition_start),
                     Model_leq(eff_ends(pb)[i], e2.eff.transition_start)>>)

\* for each pair of effects, enforce coherence constraints
coherence_constraints(pb) ==
    Flatten([i \in DOMAIN effects(pb) |->
               Flatten([j \in DOMAIN effects(pb) |->
                          IF /\ j > i
                             /\ unifiable_sv(pb.model, effects(pb)[i].eff.state_var,
                                             effects(pb)[j].eff.state_var)
                          THEN <<coherence_clause(pb, i, j)>>
                          ELSE <<>>])])

\* The effects whose state variable passes the first quick check of the
\* support loop, whatever their value.
supporting_effects_of_any_value(pb, cond) ==
    {i \in DOMAIN effects(pb) :
        unifiable_sv(pb.model, cond.state_var, effects(pb)[i].eff.state_var)}

\* The effects that pass the two quick checks of the support loop.
supporting_effects(pb, cond) ==
    {i \in DOMAIN effects(pb) :
        /\ unifiable_sv(pb.model, cond.state_var, effects(pb)[i].eff.state_var)
        /\ Model_unifiable(pb.model, cond.value, effects(pb)[i].eff.value)}

\* supported_by_eff_conjunction for the condition cond and the effect eff_id
supported_by_eff(pb, cond, eff_id) ==
    LET e == effects(pb)[eff_id]
    IN Model_and(<<e.prez>>
                 \o [idx \in DOMAIN cond.state_var |->
                        Model_eq(cond.state_var[idx], e.eff.state_var[idx])]
                 \o <<Model_eq(cond.value, e.eff.value),
                      Model_leq(e.eff.persistence_start, cond.start),
                      Model_leq(cond.end, eff_ends(pb)[eff_id])>>)

\* support constraints: one disjunction for every condition
support_constraints(pb) ==
    [k \in DOMAIN conditions(pb) |->
        LET c == conditions(pb)[k]
        IN Model_or(<<Model_not(c.prez)>>
                    \o Flatten([eff_id \in DOMAIN effects(pb) |->
                                  IF eff_id \in supporting_effects(pb, c.cond)
                                  THEN <<supported_by_eff(pb, c.cond, eff_id)>>
                                  ELSE <<>>]))]

\* One chronicle constraint of an instance: [status, constraints].  An index
\* out of the tables and the assert_eq! on the length of a line are panics,
\* bail! is the Err; encode has no arm for EQ and NEQ.
chronicle_constraint(pb, instance, constraint) ==
    IF constraint.tpe.kind = "InTable"
    THEN IF constraint.tpe.table_id >= Len(pb.tables)
         THEN [status |-> "panic", constraints |-> <<>>]
         ELSE LET lines == Table_lines(pb.tables[constraint.tpe.table_id + 1])
                  vars_ == constraint.variables
              IN IF \E l \in DOMAIN lines : Len(lines[l]) # Len(vars_)
                 THEN [status |-> "panic", constraints |-> <<>>]
                 ELSE [status |-> "Ok",
                       constraints |->
                         <<Model_or(<<Model_not(instance.chronicle.presence)>>
                                    \o [l \in DOMAIN lines |->
                                          Model_and([k \in DOMAIN vars_ |->
                                                       Model_eq(vars_[k], lines[l][k])])])>>]
    ELSE IF constraint.tpe.kind = "LT"
    THEN IF Len(constraint.variables) = 2
         THEN [status |-> "Ok",
               constraints |-> <<Model_lt(constraint.variables[1], constraint.variables[2])>>]
         ELSE [status |-> "Err", constraints |-> <<>>]
    ELSE [status |-> "no arm", constraints |-> <<>>]

\* chronicle constraints: [status, constraints], the status being the one of
\* the first constraint that does not encode.
chronicle_constraints(pb) ==
    LET each == Flatten([c \in DOMAIN pb.chronicles |->
                           [k \in DOMAIN pb.chronicles[c].chronicle.constraints |->
                               chronicle_constraint(pb, pb.chronicles[c],
                                   pb.chronicles[c].chronicle.constraints[k])]])
        failed == {k \in DOMAIN each : each[k].status # "Ok"}
    IN IF failed = {}
       THEN [status |-> "Ok", constraints |-> Flatten([k \in DOMAIN each |-> each[k].constraints])]
       ELSE [status |-> each[CHOOSE k \in failed : \A x \in failed : k <= x].status,
             constraints |-> <<>>]

\* The two constraints pushed for instance1 and instance2, the implication
\* being the other way round.
symmetry_pair_reversed(instance1, instance2) ==
    <<Model_implies(instance2.chronicle.presence, instance1.chronicle.presence),
      Model_leq(instance1.chronicle.start, instance2.chronicle.start)>>

\* The two constraints pushed for instance1 and instance2 of one template,
\* instance1 having the smaller instantiation id.
symmetry_pair(instance1, instance2) ==
    <<Model_implies(instance1.chronicle.presence, instance2.chronicle.presence),
      Model_leq(instance1.chronicle.start, instance2.chronicle.start)>>

\* fn add_symmetry_breaking: the constraints it pushes.
add_symmetry_breaking(pb, tpe) ==
    IF tpe = "None" THEN <<>>
    ELSE LET chronicles == SelectSeq(pb.chronicles, LAMBDA c : c.origin.kind = "FreeAction")
         IN Flatten([i \in DOMAIN chronicles |->
                       Flatten([j \in DOMAIN chronicles |->
                                  IF /\ chronicles[i].origin.template_id
                                          = chronicles[j].origin.template_id
                                     /\ chronicles[i].origin.instantiation_id
                                          < chronicles[j].origin.instantiation_id
                                  THEN symmetry_pair(chronicles[i], chronicles[j])
                                  ELSE <<>>])])

\* impl FromStr for SymmetryBreakingType
SymmetryBreakingType_from_str(s) ==
    IF s = "none" THEN "None" ELSE IF s = "simple" THEN "Simple" ELSE "Err"

\* fn encode: [status, model, constraints, sections]; sections is a history
\* annotation that keeps apart what each part of encode pushed on constraints.
encode(pb, symmetry_breaking_tpe) ==
    LET chron == chronicle_constraints(pb)
        sections == [interval |-> interval_constraints(pb),
                     coherence |-> coherence_constraints(pb),
                     support |-> support_constraints(pb),
                     chronicle |-> chron.constraints,
                     symmetry |-> add_symmetry_breaking(pb, symmetry_breaking_tpe)]
    IN IF chron.status # "Ok"
       THEN [status |-> chron.status, model |-> pb.model, constraints |-> <<>>,
             sections |-> [interval |-> <<>>, coherence |-> <<>>, support |-> <<>>,
                           chronicle |-> <<>>, symmetry |-> <<>>]]
       ELSE [status |-> "Ok",
             model |-> [pb.model EXCEPT !.num_ivars = @ + Len(effects(pb))],
             constraints |-> sections.interval \o sections.coherence \o sections.support
                                \o sections.chronicle \o sections.symmetry,
             sections |-> sections]

\* ------------------------------------------------------- the encoder runs
\* No object of the solver core is in use.
NoSolver ==
    /\ stn = IncSTN_new
    /\ ret = Ret("new", "ok", -1, <<>>, TRUE)
    /\ panic = ""
    /\ saved = <<>>
    /\ issued = [edge |-> Edge_new(origin, origin, 0), id |-> None]
    /\ dm = DiscreteModel_new
    /\ debug_assertions = FALSE
    /\ NoBrancher
    /\ NoTheory

\* The symbols of the problems: a predicate, two objects and two values, a
\* parameter that ranges over the objects and one that ranges over the values.
PredP == SymConst(0)
ObjA == SymConst(1)
ObjB == SymConst(2)
ValT == SymConst(3)
ValF == SymConst(4)
ParamX == SymVar(0)
ParamV == SymVar(1)
SymDomains == [v \in {ParamX.id, ParamV.id} |->
                  IF v = ParamX.id THEN {ObjA.id, ObjB.id} ELSE {ValT.id, ValF.id}]

StateVars == {<<PredP>>, <<PredP, ObjA>>, <<PredP, ObjB>>, <<PredP, ParamX>>}
EffectKinds == StateVars \X {ValT, ValF}
CondKinds == StateVars \X {ValT, ParamV}

\* The lists of constraints of the original chronicle: none, an ordering, an
\* ordering over three atoms (that encode refuses), a table constraint.
ConstraintLists ==
    {<<>>,
     <<[variables |-> <<IVar(0), IVar(1)>>, tpe |-> LT]>>,
     <<[variables |-> <<IVar(0), IVar(1), IVar(0)>>, tpe |-> LT]>>,
     <<[variables |-> <<ParamX>>, tpe |-> InTable(0)]>>}

\* The elements of 1..n that sel accepts, in increasing order.
Selected(n, sel(_)) == SelectSeq([g \in 1..n |-> g], sel)

\* The FiniteProblem of the chronicles of the given origins: the effect g is
\* of the kind eff_kinds[g] and belongs to the chronicle eff_owner[g], and so
\* for the conditions; every time point is a variable of its own; constraints
\* are those of the first chronicle.
MakeProblem(origins, eff_kinds, eff_owner, cond_kinds, cond_owner, constraints) ==
    LET nC == Len(origins)
        nE == Len(eff_kinds)
        nH == Len(cond_kinds)
        eff(g) == [transition_start |-> IVar(nC + 2 * (g - 1)),
                   persistence_start |-> IVar(nC + 2 * (g - 1) + 1),
                   state_var |-> eff_kinds[g][1], value |-> eff_kinds[g][2]]
        cond(h) == [start |-> IVar(nC + 2 * nE + 2 * (h - 1)),
                    end |-> IVar(nC + 2 * nE + 2 * (h - 1) + 1),
                    state_var |-> cond_kinds[h][1], value |-> cond_kinds[h][2]]
        effs_of(c) == Selected(nE, LAMBDA g : eff_owner[g] = c)
        conds_of(c) == Selected(nH, LAMBDA h : cond_owner[h] = c)
    IN [model |-> [num_ivars |-> nC + 2 * nE + 2 * nH, sym_domains |-> SymDomains],
        origin |-> Term("int", ORIGIN, <<>>),
        horizon |-> Term("int", HORIZON, <<>>),
        chronicles |->
          [c \in 1..nC |->
             [origin |-> origins[c],
              chronicle |->
                [presence |-> IF origins[c].kind = "Original" THEN BTrue ELSE BVar(c),
                 start |-> IVar(c - 1),
                 effects |-> [k \in DOMAIN effs_of(c) |-> eff(effs_of(c)[k])],
                 conditions |-> [k \in DOMAIN conds_of(c) |-> cond(conds_of(c)[k])],
                 constraints |-> IF c = 1 THEN constraints ELSE <<>>]]],
        tables |-> <<[line_size |-> 1, inner |-> <<ObjA, ObjB>>]>>]

NotCalled ==
    [status |-> "not called", model |-> <<>>, constraints |-> <<>>, sections |-> <<>>]

\* The variables no call of the encoder touches.
NotLcp == <<stn, ret, panic, saved, issued, dm, debug_assertions, brancher, stats,
            current_assignment, enqueued, theory, model_events, driver, con, watches,
            pool>>

\* encode(&pb), with the policy read from ARIES_LCP_SYMMETRY_BREAKING
Encode ==
    /\ lcp.result.status = "not called"
    /\ lcp' = [lcp EXCEPT !.result =
                 encode(lcp.pb, SymmetryBreakingType_from_str(lcp.SYMMETRY_BREAKING))]
    /\ UNCHANGED NotLcp

\* ---- problems of up to MaxEffects effects and MaxConditions conditions, in
\* the original chronicle and in one action instance.
EncodeInit ==
    /\ NoSolver
    /\ driver = <<>>
    /\ con = <<>>
    /\ watches = <<>>
    /\ pool = <<>>
    /\ \E nE \in 0..MaxEffects, nH \in 0..MaxConditions :
         \E eff_kinds \in [1..nE -> EffectKinds], split \in 0..nE,
            cond_kinds \in [1..nH -> CondKinds], cond_owner \in [1..nH -> 1..2] :
           lcp = [pb |-> MakeProblem(<<Original, FreeAction(0, 0)>>, eff_kinds,
                                     [g \in 1..nE |-> IF g <= split THEN 1 ELSE 2],
                                     cond_kinds, cond_owner, <<>>),
                  SYMMETRY_BREAKING |-> "simple",
                  result |-> NotCalled]

EncodeNext == Encode

SpecEncode == EncodeInit /\ [][EncodeNext]_vars

\* ---- problems populated with the instances of up to MaxTemplates templates,
\* up to MaxInstances of each, under both policies.
\* populate_with_template_instances: the origins of the instances pushed for
\* the numbers of instances num_instances[template_id].
instance_origins(num_instances) ==
    Flatten([t \in DOMAIN num_instances |->
               [i \in 1..num_instances[t] |-> FreeAction(t - 1, i - 1)]])

SymmetryInit ==
    /\ NoSolver
    /\ driver = <<>>
    /\ con = <<>>
    /\ watches = <<>>
    /\ pool = <<>>
    /\ \E nT \in 1..MaxTemplates :
         \E num_instances \in [1..nT -> 0..MaxInstances],
            constraints \in ConstraintLists, policy \in {"none", "simple"} :
           lcp = [pb |-> MakeProblem(<<Original>> \o instance_origins(num_instances),
                                     <<>>, <<>>, <<>>, <<>>, constraints),
                  SYMMETRY_BREAKING |-> policy,
                  result |-> NotCalled]

SymmetryNext == Encode

SpecSymmetry == SymmetryInit /\ [][SymmetryNext]_vars


\* --------------------------------------------------------------- lcp claims
\* The number of times each element occurs in the sequence s.
BagOf(s) == [x \in Range(s) |-> Cardinality({i \in DOMAIN s : s[i] = x})]

\* encode has returned Ok((model, constraints)).
Encoded == lcp.result.status = "Ok"

\* eff_end(e) for the i-th effect of the problem: the variable that the
\* interval constraints put after its persistence_start.
EffEnd(i) ==
    LET e == effects(lcp.pb)[i].eff
    IN (CHOOSE c \in Range(lcp.result.sections.interval) :
            c.fun = "leq" /\ c.args[1] = e.persistence_start /\ c.args[2] # e.persistence_start
       ).args[2]

\* The end variables are variables that the problem did not have, one for
\* every effect.
FreshEnds ==
    \A i, j \in DOMAIN effects(lcp.pb) :
        /\ EffEnd(i).fun = "ivar"
        /\ EffEnd(i).id >= lcp.pb.model.num_ivars
        /\ EffEnd(i).id < lcp.result.model.num_ivars
        /\ i # j => EffEnd(i) # EffEnd(j)

\* The state variables sv1 and sv2 have the same arity and are unifiable
\* position by position.
SameSignature(sv1, sv2) ==
    /\ Len(sv1) = Len(sv2)
    /\ \A k \in 1..Len(sv1) :
         sym_domain_of(lcp.pb.model, sv1[k]) \cap sym_domain_of(lcp.pb.model, sv2[k]) # {}

\* The pairs of effects i < j of the global effect order that can conflict.
ConflictingPairs ==
    {p \in (DOMAIN effects(lcp.pb)) \X (DOMAIN effects(lcp.pb)) :
        /\ p[1] < p[2]
        /\ SameSignature(effects(lcp.pb)[p[1]].eff.state_var,
                         effects(lcp.pb)[p[2]].eff.state_var)}

\* The disjuncts of the coherence clause of the pair p, as the claim lists them.
CoherenceDisjuncts(p) ==
    LET ei == effects(lcp.pb)[p[1]]
        ej == effects(lcp.pb)[p[2]]
        differing == Selected(Len(ei.eff.state_var),
                              LAMBDA k : ei.eff.state_var[k] # ej.eff.state_var[k])
    IN BagOf(<<Expr("not", <<ei.prez>>), Expr("not", <<ej.prez>>)>>
             \o [d \in DOMAIN differing |->
                    Expr("neq", <<ei.eff.state_var[differing[d]],
                                  ej.eff.state_var[differing[d]]>>)]
             \o <<Expr("leq", <<EffEnd(p[2]), ei.eff.transition_start>>),
                  Expr("leq", <<EffEnd(p[1]), ej.eff.transition_start>>)>>)

\* The clauses of the sequence cs are disjunctions, and they are, up to the
\* order of the disjuncts, one clause Disjuncts(x) for every x of the set xs.
OneClauseForEach(cs, xs, Disjuncts(_)) ==
    /\ Len(cs) = Cardinality(xs)
    /\ \A k \in DOMAIN cs : cs[k].fun = "or"
    /\ \A x \in xs :
         Cardinality({k \in DOMAIN cs : BagOf(cs[k].args) = Disjuncts(x)})
             = Cardinality({y \in xs : Disjuncts(y) = Disjuncts(x)})

\* C23: encode emits exactly one coherence clause for every pair of effects
\* i < j of the global effect order whose state variables have the same arity
\* and are unifiable position by position, and none for another pair; the
\* clause is the disjunction of not p_i, not p_j, a disequality for every
\* position whose two atoms are not identical, eff_end(e_j) <= the
\* transition_start of e_i and eff_end(e_i) <= the transition_start of e_j,
\* eff_end(e) being the fresh end variable made for e.
C23_OneCoherenceClausePerPair ==
    Encoded =>
      /\ FreshEnds
      /\ OneClauseForEach(lcp.result.sections.coherence, ConflictingPairs, CoherenceDisjuncts)
      /\ \A k \in DOMAIN lcp.result.sections.coherence :
           lcp.result.sections.coherence[k] \in Range(lcp.result.constraints)

\* encode has returned the clauses of three effects: two pairs that get a
\* clause with a disequality, and a pair that is skipped.
C23_Witness ==
    /\ Encoded
    /\ Len(effects(lcp.pb)) = 3
    /\ Cardinality(ConflictingPairs) = 2
    /\ \E k \in DOMAIN lcp.result.sections.coherence :
         \E d \in DOMAIN lcp.result.sections.coherence[k].args :
            lcp.result.sections.coherence[k].args[d].fun = "neq"


\* ---- problems of up to SupportEffects effects and SupportConditions
\* conditions, in the original chronicle and in one action instance.
SupportInit ==
    /\ NoSolver
    /\ driver = <<>>
    /\ con = <<>>
    /\ watches = <<>>
    /\ pool = <<>>
    /\ \E nE \in 0..SupportEffects, nH \in 0..SupportConditions :
         \E eff_kinds \in [1..nE -> EffectKinds], split \in 0..nE,
            cond_kinds \in [1..nH -> CondKinds], cond_owner \in [1..nH -> 1..2] :
           lcp = [pb |-> MakeProblem(<<Original, FreeAction(0, 0)>>, eff_kinds,
                                     [g \in 1..nE |-> IF g <= split THEN 1 ELSE 2],
                                     cond_kinds, cond_owner, <<>>),
                  SYMMETRY_BREAKING |-> "simple",
                  result |-> NotCalled]

SupportNext == Encode

SpecSupport == SupportInit /\ [][SupportNext]_vars

\* A disjunct of a support clause, up to the order of the conjuncts of a
\* conjunction.
UpToOrder(d) ==
    IF d.fun = "and"
    THEN [fun |-> "and", lit |-> BTrue, conjuncts |-> BagOf(d.args)]
    ELSE [fun |-> "lit", lit |-> d, conjuncts |-> BagOf(<<>>)]

\* The effects that can support the h-th condition: their state variable
\* and their value are unifiable with those of the condition.
Supporters(h) ==
    LET c == conditions(lcp.pb)[h].cond
    IN {i \in DOMAIN effects(lcp.pb) :
          /\ SameSignature(c.state_var, effects(lcp.pb)[i].eff.state_var)
          /\ sym_domain_of(lcp.pb.model, c.value)
                \cap sym_domain_of(lcp.pb.model, effects(lcp.pb)[i].eff.value) # {}}

\* The conjunction for the h-th condition supported by the i-th effect.
SupportConjunction(h, i) ==
    LET c == conditions(lcp.pb)[h].cond
        e == effects(lcp.pb)[i]
    IN Expr("and", <<e.prez>>
                   \o [k \in 1..Len(c.state_var) |->
                          Expr("eq", <<c.state_var[k], e.eff.state_var[k]>>)]
                   \o <<Expr("eq", <<c.value, e.eff.value>>),
                        Expr("leq", <<e.eff.persistence_start, c.start>>),
                        Expr("leq", <<c.end, EffEnd(i)>>)>>)

\* The disjuncts of the support clause of the h-th condition, as the claim
\* lists them.
SupportDisjuncts(h) ==
    LET supporters == Selected(Len(effects(lcp.pb)), LAMBDA i : i \in Supporters(h))
    IN BagOf(<<UpToOrder(Expr("not", <<conditions(lcp.pb)[h].prez>>))>>
             \o [s \in DOMAIN supporters |-> UpToOrder(SupportConjunction(h, supporters[s]))])

\* C24: for every condition c of every chronicle, encode emits exactly one
\* support clause: the disjunction of not p_c and, for every effect e whose
\* state variable and value are unifiable with those of c and for no other,
\* the conjunction of p_e, sv_c[k] = sv_e[k] for every position, c.value =
\* e.value, e.persistence_start <= c.start and c.end <= eff_end(e); with no
\* such effect the clause is (not p_c).
C24_OneSupportClausePerCondition ==
    Encoded =>
      LET support == lcp.result.sections.support
          clause(k) == BagOf([d \in DOMAIN support[k].args |-> UpToOrder(support[k].args[d])])
      IN /\ Len(support) = Len(conditions(lcp.pb))
         /\ \A k \in DOMAIN support :
              /\ support[k].fun = "or"
              /\ support[k] \in Range(lcp.result.constraints)
         /\ \A h \in DOMAIN conditions(lcp.pb) :
              Cardinality({k \in DOMAIN support : clause(k) = SupportDisjuncts(h)})
                = Cardinality({g \in DOMAIN conditions(lcp.pb) :
                                  SupportDisjuncts(g) = SupportDisjuncts(h)})

\* encode has returned the support clauses of two conditions: one that an
\* effect can support and another effect cannot, and one that no effect can
\* support.
C24_Witness ==
    /\ Encoded
    /\ Len(conditions(lcp.pb)) = 2
    /\ Len(effects(lcp.pb)) = 2
    /\ \E h, g \in DOMAIN conditions(lcp.pb) :
         /\ Cardinality(Supporters(h)) = 1
         /\ Supporters(g) = {}
         /\ \E k \in DOMAIN lcp.result.sections.support :
              Len(lcp.result.sections.support[k].args) = 1


\* The ordered pairs of free-action instances of one template, the first
\* with the smaller instantiation id.
SameTemplatePairs ==
    {p \in (DOMAIN lcp.pb.chronicles) \X (DOMAIN lcp.pb.chronicles) :
        LET o1 == lcp.pb.chronicles[p[1]].origin
            o2 == lcp.pb.chronicles[p[2]].origin
        IN /\ o1.kind = "FreeAction"
           /\ o2.kind = "FreeAction"
           /\ o1.template_id = o2.template_id
           /\ o1.instantiation_id < o2.instantiation_id}

Presence(c) == lcp.pb.chronicles[c].chronicle.presence
Start(c) == lcp.pb.chronicles[c].chronicle.start

\* The number of times x occurs in the sequence s.
Occurrences(s, x) == Cardinality({k \in DOMAIN s : s[k] = x})

C25_WitnessNone ==
    /\ Encoded
    /\ lcp.SYMMETRY_BREAKING = "none"
    /\ SameTemplatePairs # {}
    /\ lcp.result.sections.symmetry = <<>>


\* An assignment of the variables of the encoded model: a truth value for
\* every presence, a time in 0..1 for every integer variable and a symbol of
\* its domain for every symbolic variable.
Assignments ==
    [bvar : [1..Len(lcp.pb.chronicles) -> BOOLEAN],
     ivar : [0..(lcp.result.model.num_ivars - 1) -> 0..1],
     sym_var : {f \in [(DOMAIN SymDomains) -> UNION {SymDomains[v] : v \in DOMAIN SymDomains}] :
                   \A v \in DOMAIN SymDomains : f[v] \in SymDomains[v]}]

IntValue(a, val) == IF a.fun = "int" THEN a.id ELSE val.ivar[a.id]
SymValue(a, val) == IF a.fun = "sym" THEN a.id ELSE val.sym_var[a.id]

\* The expression c is true in the assignment val.
RECURSIVE Holds(_, _)
Holds(c, val) ==
    CASE c.fun = "true" -> TRUE
      [] c.fun = "bvar" -> val.bvar[c.id]
      [] c.fun = "not" -> ~Holds(c.args[1], val)
      [] c.fun = "implies" -> (Holds(c.args[1], val) => Holds(c.args[2], val))
      [] c.fun = "or" -> \E d \in DOMAIN c.args : Holds(c.args[d], val)
      [] c.fun = "and" -> \A d \in DOMAIN c.args : Holds(c.args[d], val)
      [] c.fun = "leq" -> IntValue(c.args[1], val) <= IntValue(c.args[2], val)
      [] c.fun = "lt" -> IntValue(c.args[1], val) < IntValue(c.args[2], val)
      [] c.fun = "eq" -> SymValue(c.args[1], val) = SymValue(c.args[2], val)
      [] c.fun = "neq" -> SymValue(c.args[1], val) # SymValue(c.args[2], val)

\* The assignments that satisfy every constraint that encode returned.
Solutions ==
    {val \in Assignments : \A k \in DOMAIN lcp.result.constraints :
                               Holds(lcp.result.constraints[k], val)}

\* C26: under the simple policy, of any two instances of the same template
\* the first one (smaller instantiation id) is present whenever the second
\* one is, and starts no later than the second, in every solution of the
\* constraints.
C26_FirstInstancePresentIfSecond ==
    Encoded /\ lcp.SYMMETRY_BREAKING = "simple" =>
      \A p \in SameTemplatePairs : \A val \in Solutions :
          /\ Holds(Presence(p[2]), val) => Holds(Presence(p[1]), val)
          /\ IntValue(Start(p[1]), val) <= IntValue(Start(p[2]), val)


\* --------------------------------------------------- chronicle constraints
\* Constraint::lt, Constraint::eq and Constraint::neq of
\* planning/src/chronicles/constraints.rs
Constraint_lt(a, b) == [variables |-> <<a, b>>, tpe |-> LT]
Constraint_eq(a, b) == [variables |-> <<a, b>>, tpe |-> NEQ]
Constraint_neq(a, b) == [variables |-> <<a, b>>, tpe |-> NEQ]

\* impl Substitute for Constraint: substitution.sub is a function of the atoms.
Constraint_substitute(c, substitution) ==
    [variables |-> [i \in DOMAIN c.variables |-> substitution[c.variables[i]]],
     tpe |-> c.tpe]

\* The atoms of the constraints, and the substitutions: the identity, the
\* instantiation of the parameters, the exchange of the two time points.
ConstraintAtoms == {ObjA, ObjB, ParamX, ParamV, ValT, IVar(0), IVar(1)}
Substitutions ==
    {[a \in ConstraintAtoms |-> a],
     [a \in ConstraintAtoms |-> IF a = ParamX THEN ObjA ELSE IF a = ParamV THEN ValT ELSE a],
     [a \in ConstraintAtoms |-> IF a = IVar(0) THEN IVar(1) ELSE IF a = IVar(1) THEN IVar(0) ELSE a]}

\* The variables no call on a Constraint touches.
NotCon == <<stn, ret, panic, saved, issued, dm, debug_assertions, brancher, stats,
            current_assignment, enqueued, theory, model_events, lcp, driver, watches, pool>>

\* The call op(args) has returned the constraint c; prev is the constraint
\* it was called on, if any.
Built(op, args, prev, c) ==
    /\ con' = [op |-> op, args |-> args, prev |-> prev, constraint |-> c]
    /\ UNCHANGED NotCon

ConstraintLt == \E a, b \in ConstraintAtoms : Built("lt", <<a, b>>, <<>>, Constraint_lt(a, b))
ConstraintEq == \E a, b \in ConstraintAtoms : Built("eq", <<a, b>>, <<>>, Constraint_eq(a, b))
ConstraintNeq == \E a, b \in ConstraintAtoms : Built("neq", <<a, b>>, <<>>, Constraint_neq(a, b))
ConstraintSubstitute ==
    /\ con.op # "none"
    /\ \E s \in Substitutions :
         Built("substitute", s, <<con.constraint>>, Constraint_substitute(con.constraint, s))

ConstraintInit ==
    /\ NoSolver
    /\ lcp = <<>>
    /\ driver = <<>>
    /\ con = [op |-> "none", args |-> <<>>, prev |-> <<>>, constraint |-> <<>>]
    /\ watches = <<>>
    /\ pool = <<>>

ConstraintNext ==
    \/ ConstraintLt
    \/ ConstraintEq
    \/ ConstraintNeq
    \/ ConstraintSubstitute

SpecConstraint == ConstraintInit /\ [][ConstraintNext]_vars

\* C27: Constraint::eq(a, b) builds a constraint of type EQ over (a, b) and
\* Constraint::neq(a, b) one of type NEQ, so that the two constructors give
\* constraints that can be told apart; substitute keeps the type of the
\* constraint and the number and the order of its variables.
C27_EqAndNeqAreDistinct ==
    /\ con.op = "eq" => con.constraint = [variables |-> con.args, tpe |-> EQ]
    /\ con.op = "neq" => con.constraint = [variables |-> con.args, tpe |-> NEQ]
    /\ con.op = "eq" => con.constraint # Constraint_neq(con.args[1], con.args[2])
    /\ con.op = "neq" => con.constraint # Constraint_eq(con.args[1], con.args[2])
    /\ con.op = "substitute" =>
         /\ con.constraint.tpe = con.prev[1].tpe
         /\ Len(con.constraint.variables) = Len(con.prev[1].variables)
         /\ \A i \in DOMAIN con.prev[1].variables :
              con.constraint.variables[i] = con.args[con.prev[1].variables[i]]


\* ------------------------------------------------------------ the lcp driver
\* Option<u32> of Opt.max_actions: None and Some(x)
NoLimit == [some |-> FALSE, value |-> 0]
Limit(x) == [some |-> TRUE, value |-> x]

\* The range min_actions..max_actions.unwrap_or(u32::max_value()) of main.
\* Without max_actions the range ends at u32::MAX, which no count tried here
\* comes near: the attempts are capped at MaxAttempts.
in_action_range(opt, n) ==
    /\ opt.min_actions <= n
    /\ opt.max_actions.some => n < opt.max_actions.value

\* The FiniteProblem main builds for an attempt: the chronicles of the
\* specification, each chronicle reduced to its origin.
FiniteProblem(spec) == [chronicles |-> spec.chronicles]

\* instantiate: template.instantiate succeeds or answers InvalidSubstitution,
\* which is a property of the template.
instantiate(template, chronicle_origin) ==
    IF template.valid THEN [ok |-> TRUE, instance |-> chronicle_origin]
    ELSE [ok |-> FALSE, instance |-> chronicle_origin]

\* The inner loop of populate_with_template_instances for one template:
\* instantiation_id runs from the given one up to n - 1.
RECURSIVE instantiate_from(_, _, _, _, _)
instantiate_from(pb, template_id, template, instantiation_id, n) ==
    IF instantiation_id >= n THEN [ok |-> TRUE, pb |-> pb]
    ELSE LET r == instantiate(template, FreeAction(template_id, instantiation_id))
         IN IF ~r.ok THEN [ok |-> FALSE, pb |-> pb]
            ELSE instantiate_from([pb EXCEPT !.chronicles = Append(@, r.instance)],
                                  template_id, template, instantiation_id + 1, n)

RECURSIVE populate_from(_, _, _, _)
populate_from(pb, spec, t, n) ==
    IF t > Len(spec.templates) THEN [ok |-> TRUE, pb |-> pb]
    ELSE LET r == instantiate_from(pb, t - 1, spec.templates[t], 0, n)
         IN IF ~r.ok THEN r ELSE populate_from(r.pb, spec, t + 1, n)

populate_with_one_more_instance(pb, spec, n) == populate_from(pb, spec, 1, n + 1)

\* populate_with_template_instances(pb, spec, |_| Some(n))
populate_with_template_instances(pb, spec, n) == populate_from(pb, spec, 1, n)

\* The variables the driver does not touch.
NotDriver == <<stn, ret, panic, saved, issued, dm, debug_assertions, brancher, stats,
               current_assignment, enqueued, theory, model_events, lcp, con, watches,
               pool>>

\* One turn of the loop of main, for the action count driver.n: the
\* problem is built and populated, and solved. What solve answers depends on
\* the planning problem, which is not modelled: it finds a plan, finds none,
\* or panics on an encoding error (encode(&pb).unwrap()).
Attempt ==
    /\ driver.status = "looping"
    /\ in_action_range(driver.opt, driver.n)
    /\ Len(driver.attempts) < MaxAttempts
    /\ LET n == driver.n
           populated == populate_with_template_instances(FiniteProblem(driver.spec),
                                                         driver.spec, n)
       IN IF ~populated.ok
          THEN driver' = [driver EXCEPT !.status = "error", !.exit_code = 1]
          ELSE \E result \in {"Some", "None", "panic"} :
                 LET tried == Append(driver.attempts,
                                     [n |-> n, pb |-> populated.pb, result |-> result])
                 IN driver' =
                      CASE result = "Some" ->
                             [driver EXCEPT !.attempts = tried, !.status = "found",
                                            !.exit_code = 0]
                        [] result = "None" ->
                             [driver EXCEPT !.attempts = tried, !.n = n + 1]
                        [] OTHER ->
                             [driver EXCEPT !.attempts = tried, !.status = "panic",
                                            !.exit_code = 101]
    /\ UNCHANGED NotDriver

\* The range is exhausted: main returns Ok(()).
Exhausted ==
    /\ driver.status = "looping"
    /\ ~in_action_range(driver.opt, driver.n)
    /\ driver' = [driver EXCEPT !.status = "exhausted", !.exit_code = 0]
    /\ UNCHANGED NotDriver

\* main has parsed its options and the problem, and is about to enter its loop.
DriverInit ==
    /\ NoSolver
    /\ lcp = <<>>
    /\ con = <<>>
    /\ watches = <<>>
    /\ pool = <<>>
    /\ \E min_actions \in 0..MaxMinActions,
          max_actions \in {NoLimit} \cup {Limit(x) : x \in 0..MaxMaxActions},
          nT \in 0..MaxSpecTemplates :
         \E valid \in [1..nT -> BOOLEAN] :
           driver = [opt |-> [min_actions |-> min_actions, max_actions |-> max_actions],
                     spec |-> [chronicles |-> <<Original>>,
                               templates |-> [t \in 1..nT |-> [valid |-> valid[t]]]],
                     n |-> min_actions,
                     attempts |-> <<>>,
                     status |-> "looping",
                     exit_code |-> -1]

DriverNext ==
    \/ Attempt
    \/ Exhausted

SpecDriver == DriverInit /\ [][DriverNext]_vars

\* The instances of template t among the chronicles of a finite problem.
InstancesOf(pb, t) ==
    {i \in DOMAIN pb.chronicles :
        /\ pb.chronicles[i].kind = "FreeAction"
        /\ pb.chronicles[i].template_id = t - 1}

\* C28: the driver tries the action counts min_actions, min_actions + 1, ... in
\* strictly increasing order, each on a finite problem built afresh with
\* exactly n instances of every template; it never tries a count that is
\* max_actions or more, tries nothing after the first attempt that returned
\* a solution, and exits with code 0 both when a solution was found and when
\* the range is exhausted.
C28_AttemptsInIncreasingOrder ==
    LET a == driver.attempts
        nT == Len(driver.spec.templates)
    IN /\ \A i \in DOMAIN a :
            /\ a[i].n = driver.opt.min_actions + i - 1
            /\ driver.opt.max_actions.some => a[i].n < driver.opt.max_actions.value
            /\ \A t \in 1..nT : Cardinality(InstancesOf(a[i].pb, t)) = a[i].n
            /\ Len(a[i].pb.chronicles) = Len(driver.spec.chronicles) + nT * a[i].n
            /\ SubSeq(a[i].pb.chronicles, 1, Len(driver.spec.chronicles))
                 = driver.spec.chronicles
            /\ a[i].result = "Some" => i = Len(a) /\ driver.status = "found"
       /\ driver.status \in {"found", "exhausted"} => driver.exit_code = 0
       /\ driver.status = "exhausted" =>
            /\ ~in_action_range(driver.opt, driver.n)
            /\ \A i \in DOMAIN a : a[i].result = "None"
       /\ driver.status = "looping" => driver.exit_code = -1

\* A solution found at the third attempt, on a problem of two templates.
C28_Witness ==
    /\ driver.status = "found"
    /\ Len(driver.attempts) = 3
    /\ driver.attempts[1].n > 0
    /\ Len(driver.spec.templates) = 2
    /\ driver.opt.max_actions.some

\* The range exhausted after attempts that found nothing.
C28_WitnessExhausted ==
    /\ driver.status = "exhausted"
    /\ Len(driver.attempts) >= 2
    /\ Len(driver.spec.templates) >= 1


\* ------------------------------------------------------------------ Watches
\* Bound: the literal (var <= val) or (var >= val). var_rel names the bound of
\* the variable the literal is on, which is also its VarBound (affected_bound):
\* the lower bound of variable v is 2v, its upper bound 2v + 1. raw_value is
\* val for an upper bound and -val for a lower bound, so that for both sides
\* the smaller raw value is the stronger one.
Bound_leq(var, val) == [var_rel |-> 2 * var + 1, raw_value |-> val]
Bound_geq(var, val) == [var_rel |-> 2 * var, raw_value |-> -val]
affected_bound(literal) == literal.var_rel
weaker(a, b) == b <= a
stronger(a, b) == a <= b

\* swap_remove of Vec: the element at index is replaced by the last one.
swap_remove(v, index) ==
    LET last == Len(v)
    IN SubSeq(IF index = last THEN v ELSE [v EXCEPT ![index] = v[last]], 1, last - 1)

\* WatchSet: the vector of its watches
WatchSet_new == <<>>
WatchSet_add_watch(wset, watcher, literal) ==
    Append(wset, [watcher |-> watcher, guard |-> literal.raw_value])

\* WatchSet::remove_watch; [set, panic]. position(..).unwrap() panics when
\* the watcher has no watch in the set, and the debug assertion fails when
\* it has one left after the removal.
WatchSet_remove_watch(wset, watcher, debug) ==
    LET found == {i \in DOMAIN wset : wset[i].watcher = watcher}
    IN IF found = {}
       THEN [set |-> wset, panic |-> "unwrap on None"]
       ELSE LET index == CHOOSE i \in found : \A j \in found : i <= j
                after == swap_remove(wset, index)
            IN [set |-> after,
                panic |-> IF debug /\ \E i \in DOMAIN after : after[i].watcher = watcher
                          THEN "assertion failed" ELSE ""]

WatchSet_is_watched_by(wset, watcher, literal) ==
    \E i \in DOMAIN wset :
        wset[i].watcher = watcher /\ stronger(literal.raw_value, wset[i].guard)

triggered_by_weaker(wset, literal) ==
    LET Triggered(w) == weaker(literal.raw_value, w.guard)
    IN [i \in DOMAIN SelectSeq(wset, Triggered) |-> SelectSeq(wset, Triggered)[i].watcher]

\* WatchSet::watches_on: the watchers in the order of the vector
WatchSet_watches_on(wset, literal) ==
    LET Triggered(w) == stronger(literal.raw_value, w.guard)
    IN [i \in DOMAIN SelectSeq(wset, Triggered) |-> SelectSeq(wset, Triggered)[i].watcher]

\* Watches: a RefVec of watch sets indexed by VarBound (index b is at
\* position b + 1), and the empty set answered for an unknown bound.
Watches_new == [watches |-> <<>>, empty_watch_set |-> WatchSet_new]
RefVec_contains(v, key) == key < Len(v)

RECURSIVE Watches_ensure_capacity(_, _)
Watches_ensure_capacity(w, var) ==
    IF RefVec_contains(w.watches, var) THEN w
    ELSE Watches_ensure_capacity([w EXCEPT !.watches = Append(@, WatchSet_new)], var)

Watches_add_watch(w, watcher, literal) ==
    LET w1 == Watches_ensure_capacity(w, affected_bound(literal))
    IN [w1 EXCEPT !.watches[affected_bound(literal) + 1] =
                     WatchSet_add_watch(@, watcher, literal)]

\* [w, panic]
Watches_remove_watch(w, watcher, literal, debug) ==
    LET w1 == Watches_ensure_capacity(w, affected_bound(literal))
        r == WatchSet_remove_watch(w1.watches[affected_bound(literal) + 1], watcher, debug)
    IN [w |-> [w1 EXCEPT !.watches[affected_bound(literal) + 1] = r.set],
        panic |-> r.panic]

Watches_is_watched_by(w, literal, watcher) ==
    IF RefVec_contains(w.watches, affected_bound(literal))
    THEN WatchSet_is_watched_by(w.watches[affected_bound(literal) + 1], watcher, literal)
    ELSE FALSE

Watches_watches_on(w, literal) ==
    LET wset == IF RefVec_contains(w.watches, affected_bound(literal))
               THEN w.watches[affected_bound(literal) + 1]
               ELSE w.empty_watch_set
    IN WatchSet_watches_on(wset, literal)

\* The literals of the calls: side "leq" is (var <= val), "geq" is (var >= val).
WatchVars == 0..(MaxWatchVars - 1)
Watchers == 1..MaxWatchers
WatchLiterals == [var : WatchVars, side : {"leq", "geq"}, val : 0..MaxWatchValue]
BoundOf(l) == IF l.side = "leq" THEN Bound_leq(l.var, l.val) ELSE Bound_geq(l.var, l.val)

NotWatches == <<stn, ret, panic, saved, issued, dm, debug_assertions, brancher, stats,
                current_assignment, enqueued, theory, model_events, lcp, driver, con,
                pool>>

\* The watch the watcher holds on the bound of the variable l is on, if any.
HeldOn(watcher, l) ==
    {h \in watches.held : h.watcher = watcher /\ h.lit.var = l.var /\ h.lit.side = l.side}

\* add_watch, by a watcher that holds no watch on that bound of the variable.
\* watches.held records the watches added and not removed since.
AddWatch ==
    /\ watches.panic = ""
    /\ \E watcher \in Watchers, l \in WatchLiterals :
         /\ HeldOn(watcher, l) = {}
         /\ watches' = [watches EXCEPT
                          !.w = Watches_add_watch(watches.w, watcher, BoundOf(l)),
                          !.held = @ \cup {[watcher |-> watcher, lit |-> l]},
                          !.last = "add_watch"]
    /\ UNCHANGED NotWatches

\* remove_watch(watcher, literal): the watch of the watcher on the bound the
\* literal is on is removed, whatever the value of the literal.
RemoveWatch ==
    /\ watches.panic = ""
    /\ \E watcher \in Watchers, l \in WatchLiterals :
         LET r == Watches_remove_watch(watches.w, watcher, BoundOf(l), watches.debug)
         IN watches' = [watches EXCEPT
                          !.w = r.w,
                          !.panic = r.panic,
                          !.held = @ \ HeldOn(watcher, l),
                          !.last = "remove_watch"]
    /\ UNCHANGED NotWatches

WatchesInit ==
    /\ NoSolver
    /\ lcp = <<>>
    /\ driver = <<>>
    /\ con = <<>>
    /\ pool = <<>>
    /\ \E debug \in BOOLEAN :
         watches = [w |-> Watches_new, held |-> {}, panic |-> "", debug |-> debug,
                    last |-> "new"]

WatchesNext ==
    \/ AddWatch
    \/ RemoveWatch

SpecWatches == WatchesInit /\ [][WatchesNext]_vars

\* lit entails the guard: both are on the same bound of the same variable,
\* and (n <= j) entails (n <= k) iff j <= k, (n >= j) entails (n >= k) iff j >= k.
Entails(lit, guard) ==
    /\ lit.var = guard.var
    /\ lit.side = guard.side
    /\ IF lit.side = "leq" THEN lit.val <= guard.val ELSE lit.val >= guard.val

\* C29: after any sequence of add_watch and remove_watch in which each
\* watcher holds at most one watch on each bound of a variable, watches_on(lit)
\* returns exactly the watchers holding a watch whose guard is on the same
\* variable and side as lit and is entailed by it, each of them once, and
\* is_watched_by(lit, w) holds exactly for the watchers watches_on(lit) returns.
C29_WatchesOnReturnsEntailedGuards ==
    watches.panic = "" =>
      \A l \in WatchLiterals :
         LET res == Watches_watches_on(watches.w, BoundOf(l))
         IN /\ Range(res) = {h.watcher : h \in {x \in watches.held : Entails(l, x.lit)}}
            /\ Len(res) = Cardinality(Range(res))
            /\ \A watcher \in Watchers :
                 Watches_is_watched_by(watches.w, BoundOf(l), watcher)
                   <=> watcher \in Range(res)

\* After a removal, one literal triggers a watcher and not another one that
\* watches the same bound with a stronger guard, and watches are held on both
\* sides of the variable.
C29_Witness ==
    /\ watches.panic = ""
    /\ watches.last = "remove_watch"
    /\ \E l \in WatchLiterals :
         /\ Range(Watches_watches_on(watches.w, BoundOf(l))) # {}
         /\ \E h \in watches.held :
              /\ h.lit.var = l.var /\ h.lit.side = l.side /\ ~Entails(l, h.lit)
         /\ \E h \in watches.held : h.lit.var = l.var /\ h.lit.side # l.side


\* ------------------------------------------------- create_ref_type, RefPool
\* A usize or a u32 is written in base 2^16, most significant part first:
\* <<hi, lo>> is hi * 2^16 + lo. A u32 has hi < 2^16; a usize may have more.
Limb == 2 ^ 16
usize(n) == <<n \div Limb, n % Limb>>
u32_MAX == <<Limb - 1, Limb - 1>>
u32_ZERO == <<0, 0>>

\* u as u32: the 32 low bits
as_u32(u) == <<u[1] % Limb, u[2]>>
\* x as usize
as_usize(x) == x

\* x + 1 on u32, for x below u32::MAX
u32_succ(x) == IF x[2] = Limb - 1 THEN <<x[1] + 1, 0>> ELSE <<x[1], x[2] + 1>>
\* x - 1 on u32, for x above 0
u32_pred(x) == IF x[2] = 0 THEN <<x[1] - 1, Limb - 1>> ELSE <<x[1], x[2] - 1>>

\* impl From<usize> for a type of create_ref_type: the outcomes of
\* NonZeroU32::new_unchecked(u as u32 + 1). The addition overflows on
\* u32::MAX: a build with overflow checks panics, one without wraps to 0 and
\* new_unchecked(0) is undefined behaviour, of which the outcomes kept here are
\* a key holding 0 and an arbitrary failure.
Ref_from_usize(u, debug) ==
    LET x == as_u32(u)
    IN IF x # u32_MAX
       THEN {[key |-> [id |-> u32_succ(x)], panic |-> ""]}
       ELSE IF debug
            THEN {[key |-> [id |-> u32_ZERO], panic |-> "attempt to add with overflow"]}
            ELSE {[key |-> [id |-> u32_ZERO], panic |-> ""],
                  [key |-> [id |-> u32_ZERO], panic |-> "undefined behaviour"]}

\* impl From<$type_name> for usize: (v.id.get() - 1) as usize; [value, panic]
usize_from_Ref(v, debug) ==
    IF v.id # u32_ZERO THEN [value |-> as_usize(u32_pred(v.id)), panic |-> ""]
    ELSE IF debug THEN [value |-> u32_ZERO, panic |-> "attempt to subtract with overflow"]
    ELSE [value |-> as_usize(u32_MAX), panic |-> ""]

\* Index of a usize in a TLA+ sequence (a Vec holds few elements here)
AsIndex(u) == u[1] * Limb + u[2] + 1

\* RefPool: internal is the Vec of values, rev the map from values to keys
\* (a set of pairs [val, key] with one pair per value).
RefPool_default == [internal |-> <<>>, rev |-> {}]
RefPool_len(p) == usize(Len(p.internal))
rev_contains_key(p, v) == \E e \in p.rev : e.val = v
rev_insert(rev, v, id) == {e \in rev : e.val # v} \cup {[val |-> v, key |-> id]}

\* RefPool::keys: (0..len).map(K::from); the outcomes of the conversions
RefPool_keys(p, debug) ==
    [i \in 1..Len(p.internal) |-> Ref_from_usize(usize(i - 1), debug)]

\* RefPool::push: the outcomes, each [pool, key, panic]
RefPool_push(p, v, debug) ==
    IF rev_contains_key(p, v)
    THEN {[pool |-> p, key |-> [id |-> u32_ZERO],
           panic |-> "assertion failed: !self.rev.contains_key(&v)"]}
    ELSE {IF c.panic # "" THEN [pool |-> p, key |-> c.key, panic |-> c.panic]
          ELSE [pool |-> [internal |-> Append(p.internal, v),
                          rev |-> rev_insert(p.rev, v, c.key)],
                key |-> c.key, panic |-> ""]
          : c \in Ref_from_usize(RefPool_len(p), debug)}

\* RefPool::get: [value, panic]; indexing out of the Vec panics
RefPool_get(p, k, debug) ==
    LET i == usize_from_Ref(k, debug)
    IN IF i.panic # "" THEN [value |-> <<>>, panic |-> i.panic]
       ELSE IF i.value[1] = 0 /\ AsIndex(i.value) \in DOMAIN p.internal
            THEN [value |-> <<p.internal[AsIndex(i.value)]>>, panic |-> ""]
            ELSE [value |-> <<>>, panic |-> "index out of bounds"]

\* RefPool::get_ref: Option<K> as the set of the keys found
RefPool_get_ref(p, v) == {e.key : e \in {x \in p.rev : x.val = v}}

PoolValues == 1..MaxPoolValues

\* The indices converted: small ones, and those around 2^32.
ConvertedIndices ==
    {usize(0), usize(1), usize(2), <<Limb - 1, Limb - 2>>, <<Limb - 1, Limb - 1>>,
     <<Limb, 0>>, <<Limb, 1>>}

NotPool == <<stn, ret, panic, saved, issued, dm, debug_assertions, brancher, stats,
             current_assignment, enqueued, theory, model_events, lcp, driver, con,
             watches>>

\* push(v); pool.pushed records the values pushed, with the keys returned.
Push ==
    /\ pool.panic = ""
    /\ \E v \in PoolValues : \E r \in RefPool_push(pool.p, v, pool.debug) :
         pool' = [pool EXCEPT
                    !.p = r.pool,
                    !.panic = r.panic,
                    !.pushed = IF r.panic = "" THEN Append(@, [val |-> v, key |-> r.key])
                               ELSE @,
                    !.last = [op |-> "push", arg |-> v, before |-> <<pool.p>>]]
    /\ UNCHANGED NotPool

\* K::from(u) for an index u, followed by usize::from of the key obtained.
Convert ==
    /\ pool.panic = ""
    /\ \E u \in ConvertedIndices : \E c \in Ref_from_usize(u, pool.debug) :
         LET back == usize_from_Ref(c.key, pool.debug)
         IN pool' = [pool EXCEPT
                       !.conv = [called |-> TRUE, u |-> u, key |-> c.key,
                                 back |-> back.value,
                                 panic |-> IF c.panic # "" THEN c.panic ELSE back.panic],
                       !.panic = IF c.panic # "" THEN c.panic ELSE back.panic,
                       !.last = [op |-> "from", arg |-> u, before |-> <<pool.p>>]]
    /\ UNCHANGED NotPool

PoolInit ==
    /\ NoSolver
    /\ lcp = <<>>
    /\ driver = <<>>
    /\ con = <<>>
    /\ watches = <<>>
    /\ \E debug \in BOOLEAN :
         pool = [p |-> RefPool_default, debug |-> debug, panic |-> "", pushed |-> <<>>,
                 conv |-> [called |-> FALSE, u |-> usize(0), key |-> [id |-> u32_ZERO],
                           back |-> usize(0), panic |-> ""],
                 last |-> [op |-> "new", arg |-> 0, before |-> <<>>]]

PoolNext ==
    \/ Push
    \/ Convert

SpecPool == PoolInit /\ [][PoolNext]_vars

\* The pool is as the pushes made it: the keys are 0..len-1 in the order of
\* insertion, get(k) is the value pushed under k, get_ref(v) is k exactly if
\* v was pushed under k, and the values are pairwise distinct.
PoolAsPushed ==
    LET p == pool.p
        n == Len(pool.pushed)
    IN /\ RefPool_len(p) = usize(n)
       /\ \A i \in 1..n :
            /\ RefPool_keys(p, pool.debug)[i] = {[key |-> pool.pushed[i].key, panic |-> ""]}
            /\ usize_from_Ref(pool.pushed[i].key, pool.debug) = [value |-> usize(i - 1), panic |-> ""]
            /\ RefPool_get(p, pool.pushed[i].key, pool.debug)
                 = [value |-> <<pool.pushed[i].val>>, panic |-> ""]
       /\ \A v \in PoolValues :
            RefPool_get_ref(p, v) = {e.key : e \in {x \in Range(pool.pushed) : x.val = v}}
       /\ \A i, j \in 1..n : i # j => pool.pushed[i].val # pool.pushed[j].val
       /\ \A i, j \in 1..n : i # j => pool.pushed[i].key # pool.pushed[j].key

\* A later push leaves the keys and the values there were, and a push of a
\* value already present is rejected.
PushKeepsEntries ==
    pool.last.op = "push" =>
      LET before == pool.last.before[1]
      IN /\ SubSeq(pool.p.internal, 1, Len(before.internal)) = before.internal
         /\ before.rev \subseteq pool.p.rev
         /\ rev_contains_key(before, pool.last.arg) <=> pool.panic # ""

\* usize -> key -> usize is the identity, and the id is the index plus one,
\* never zero.
ConversionRoundTrip ==
    pool.conv.called =>
      /\ pool.conv.panic = ""
      /\ pool.conv.back = pool.conv.u
      /\ pool.conv.key.id # u32_ZERO
      /\ pool.conv.key.id = u32_succ(pool.conv.u)

\* C30: after any sequence of push on a RefPool the keys are the dense
\* indices 0..len-1 in insertion order, get(k) returns the value pushed under
\* k, get_ref(v) is Some(k) iff v was pushed under k, the values are pairwise
\* distinct since a push of a present value is rejected, and a later push
\* changes no key and no value; for a type of create_ref_type the conversion
\* usize -> key -> usize is the identity and the id is index + 1, never zero.
C30_DenseKeysAndRoundTrip ==
    /\ pool.panic = "" => PoolAsPushed
    /\ PushKeepsEntries
    /\ ConversionRoundTrip


\* ------------------------------------------------------------ frame of calls
\* s is a prefix of t
IsPrefix(s, t) == Len(s) <= Len(t) /\ SubSeq(t, 1, Len(s)) = s

\* From network s to network t no bound of a timepoint of s and no active
\* flag of an edge of s has changed.
SameBoundsAndFlags(s, t) ==
    /\ num_nodes(s) <= num_nodes(t)
    /\ \A n \in Nodes(s) : lb(t, n) = lb(s, n) /\ ub(t, n) = ub(s, n)
    /\ Len(s.constraints) <= Len(t.constraints)
    /\ \A i \in 1..Len(s.constraints) :
         /\ t.constraints[i].base.active = s.constraints[i].base.active
         /\ t.constraints[i].negated.active = s.constraints[i].negated.active

\* From s to t only the constraint database, the queue of pending
\* activations and the trail have grown.
OnlyGrown(s, t) ==
    /\ SameBoundsAndFlags(s, t)
    /\ t.active_forward_edges = s.active_forward_edges
    /\ t.active_backward_edges = s.active_backward_edges
    /\ t.distances = s.distances
    /\ t.level = s.level
    /\ IsPrefix(s.constraints, t.constraints)
    /\ \A i \in (Len(s.constraints) + 1)..Len(t.constraints) :
         ~t.constraints[i].base.active /\ ~t.constraints[i].negated.active
    /\ IsPrefix(s.pending_activations, t.pending_activations)
    /\ IsPrefix(s.trail, t.trail)

\* C31: add_inactive_edge and mark_active (and add_edge, made of the two)
\* commit no change to the network: the bounds of every timepoint, the active
\* flag of every edge and the adjacency lists are as before, only the
\* constraint database, the queue of pending activations and the trail grow;
\* bounds and active flags change only in propagate_all and in an undo.
C31_NoChangeBeforePropagation ==
    [][panic' = "" =>
         /\ ret'.op \in {"add_inactive_edge", "mark_active", "add_edge"} => OnlyGrown(stn, stn')
         /\ ret'.op \notin {"propagate_all", "undo_to_last_backtrack_point"} =>
              SameBoundsAndFlags(stn, stn')]_vars

\* mark_active has queued the activation of an edge that is not active, in a
\* network that has active edges and a timepoint with bounds of its own.
C31_Witness ==
    /\ panic = ""
    /\ ret.op = "mark_active"
    /\ stn.pending_activations # <<>>
    /\ Last(stn.pending_activations).type = "ToActivate"
    /\ ~active(stn, Last(stn.pending_activations).edge)
    /\ \E i \in DOMAIN stn.constraints : stn.constraints[i].base.active
    /\ \E n \in Nodes(stn) : ub(stn, n) > 0


\* ------------------------------------------------------ the life of an edge
\* The ids of the edges of the network, both polarities of every pair.
EdgeIds(s) == {EdgeID_new(i - 1, n) : i \in 1..Len(s.constraints), n \in BOOLEAN}

\* The edges whose activation is waiting in the queue.
PendingActivations(s) ==
    {s.pending_activations[i].edge :
        i \in {j \in DOMAIN s.pending_activations : s.pending_activations[j].type = "ToActivate"}}

\* The position of the last Level event of the trail, 0 if there is none.
LastLevelMark(s) ==
    LET marks == {i \in DOMAIN s.trail : s.trail[i].type = "Level"}
    IN IF marks = {} THEN 0 ELSE CHOOSE i \in marks : \A j \in marks : j <= i

\* The edges activated in the current backtrack level.
ActivatedInCurrentLevel(s) ==
    LET mark == LastLevelMark(s)
    IN {s.trail[i].edge :
          i \in {j \in DOMAIN s.trail : j > mark /\ s.trail[j].type = "EdgeActivated"}}

\* The ids in the forward adjacency lists, and in the backward ones.
InForwardLists(s) ==
    UNION {{s.active_forward_edges[n][i].id : i \in DOMAIN s.active_forward_edges[n]} :
             n \in DOMAIN s.active_forward_edges}
InBackwardLists(s) ==
    UNION {{s.active_backward_edges[n][i].id : i \in DOMAIN s.active_backward_edges[n]} :
             n \in DOMAIN s.active_backward_edges}

\* e is in the forward list of its source and in the backward list of its
\* target exactly when it is active, and in no other list.
InAdjacencyIffActive(s) ==
    LET actives == {e \in EdgeIds(s) : active(s, e)}
    IN /\ InForwardLists(s) = actives
       /\ InBackwardLists(s) = actives
       /\ \A e \in actives :
            LET edge == Index(s.constraints, e).edge
            IN /\ \E i \in DOMAIN s.active_forward_edges[edge.source + 1] :
                    s.active_forward_edges[edge.source + 1][i] =
                        [target |-> edge.target, weight |-> edge.weight, id |-> e]
               /\ \E i \in DOMAIN s.active_backward_edges[edge.target + 1] :
                    s.active_backward_edges[edge.target + 1][i] =
                        [source |-> edge.source, weight |-> edge.weight, id |-> e]

\* The step from network s to network t made by the call op: the edges that
\* became active were pending in a propagate_all, the edges that are no longer
\* active are those activated in the level an undo has undone.
EdgeSteps(s, t, op) ==
    LET before == {e \in EdgeIds(s) : active(s, e)}
        after == {e \in EdgeIds(t) : active(t, e)}
    IN /\ after \ before # {} =>
            op = "propagate_all" /\ after \ before \subseteq PendingActivations(s)
       /\ before \ after # {} => op = "undo_to_last_backtrack_point"
       /\ op = "undo_to_last_backtrack_point" =>
            after = before \ ActivatedInCurrentLevel(s)

\* C32: an edge goes Absent -> Inactive -> Active: its active flag becomes
\* true only in propagate_all, which had the activation of that edge pending,
\* and becomes false only in undo_to_last_backtrack_point, which undoes the
\* level in which the edge was activated; an edge activated before the
\* backtrack point is still active after the undo; an edge is in the forward
\* list of its source and the backward list of its target exactly when active.
C32_EdgeStateMachine ==
    [][panic' = "" /\ stn' # stn =>
         /\ EdgeSteps(stn, stn', ret'.op)
         /\ InAdjacencyIffActive(stn')]_vars

\* An undo has left active the edges activated before the backtrack point
\* and has left an edge of the caller, between two timepoints, inactive.
C32_Witness ==
    /\ panic = ""
    /\ ret.op = "undo_to_last_backtrack_point"
    /\ ret.status = "Some"
    /\ \E e \in EdgeIds(stn) : active(stn, e)
    /\ \E e \in UserIds(stn) :
         /\ ~active(stn, e)
         /\ Index(stn.constraints, e).edge.source # Index(stn.constraints, e).edge.target


\* ------------------------------------------------------------- backtrack_to
\* while self.level >= point { self.undo_to_last_backtrack_point(); } of
\* backtrack_to; [stn, status, panic]. An undo that finds the trail and the
\* queue empty changes nothing and returns None: if the loop condition still
\* holds then, it holds for ever and the call never returns ("diverges").
RECURSIVE backtrack_to_loop(_, _)
backtrack_to_loop(s, point) ==
    IF ~(s.level >= point) THEN [stn |-> s, status |-> "ok", panic |-> ""]
    ELSE LET r == undo_to_last_backtrack_point(s)
         IN IF r.panic # "" THEN [stn |-> s, status |-> "panic", panic |-> r.panic]
            ELSE IF r.stn = s THEN [stn |-> s, status |-> "diverges", panic |-> ""]
            ELSE backtrack_to_loop(r.stn, point)

\* IncSTN::backtrack_to(point), point being a u32
backtrack_to(s, point) ==
    IF ~(s.level >= point)
    THEN [stn |-> s, status |-> "panic",
          panic |-> "Invalid backtrack point: already backtracked upon"]
    ELSE backtrack_to_loop(s, point)

\* backtrack_to(point) was called and ended as r: ret.level is the point
\* asked for. A call that never returns ends the run as a panic does.
BacktrackedTo(r, point) ==
    /\ ret' = Ret("backtrack_to", r.status, point, <<>>, TRUE)
    /\ stn' = IF r.status = "panic" THEN stn ELSE r.stn
    /\ panic' = IF r.status = "diverges" THEN "never returns" ELSE r.panic
    /\ saved' = IF r.status = "ok" THEN SubSeq(saved, 1, point - 1) ELSE saved

BacktrackTo ==
    /\ panic = ""
    /\ \E point \in 0..(EagerLevel + 1) : BacktrackedTo(backtrack_to(stn, point), point)
    /\ UNCHANGED <<issued, NotSTN>>

BacktrackNext ==
    \/ EagerAddTimepoint
    \/ EagerAddEdge
    \/ PropagateAll
    \/ EagerSetBacktrackPoint
    \/ UndoToLastBacktrackPoint
    \/ BacktrackTo

SpecBacktrack == STNInit /\ [][BacktrackNext]_vars

\* backtrack_to(point) on a recorded point returns with the network as it was
\* before the set_backtrack_point that returned point.
BacktrackToRecorded(point) ==
    /\ ret'.status = "ok"
    /\ stn'.level = point - 1
    /\ Observable(stn') = saved[point]

\* C33: backtrack_to(point) terminates for every argument: on a recorded
\* point (1 <= point <= level) it returns with level = point - 1 and the
\* network in the state it had just before the set_backtrack_point that
\* returned point; on a point that is not recorded (point > level or
\* point = 0) it panics, and neither loops nor undoes anything.
C33_BacktrackToTerminates ==
    [][ret'.op = "backtrack_to" /\ ret' # ret =>
         LET point == ret'.level
         IN /\ ret'.status # "diverges"
            /\ (1 <= point /\ point <= stn.level) => BacktrackToRecorded(point)
            /\ (point = 0 \/ point > stn.level) => ret'.status = "panic" /\ stn' = stn]_vars


\* ------------------------------------------------ set_lb and set_ub, framed
\* The integer trail of d followed by one event.
WithIntEvent(d, var, ev, prev, new) ==
    Q_push(d.trail, [var |-> var, ev |-> ev, prev |-> prev, new |-> new])

\* set_lb(v, k) and set_ub(v, k) called on d: a call that does not tighten
\* changes nothing; a call that tightens returns with the bound set and the
\* integer trail longer by exactly the event (previous bound, new bound).
SetBoundContract(d, dbg) ==
    \A v \in Vars(d), k \in IntCsts :
       LET l == set_lb(d, v, k, dbg)
           u == set_ub(d, v, k, dbg)
       IN /\ k <= domain_of(d, v).lb => l = [dm |-> d, panic |-> ""]
          /\ k >= domain_of(d, v).ub => u = [dm |-> d, panic |-> ""]
          /\ k > domain_of(d, v).lb =>
               /\ l.panic = ""
               /\ domain_of(l.dm, v).lb = k
               /\ l.dm.trail = WithIntEvent(d, v, "NewLB", domain_of(d, v).lb, k)
          /\ k < domain_of(d, v).ub =>
               /\ u.panic = ""
               /\ domain_of(u.dm, v).ub = k
               /\ u.dm.trail = WithIntEvent(d, v, "NewUB", domain_of(d, v).ub, k)

\* From d to e no lower bound has decreased and no upper bound has increased.
Monotone(d, e) ==
    /\ Len(d.domains) <= Len(e.domains)
    /\ \A v \in Vars(d) :
         /\ domain_of(d, v).lb <= domain_of(e, v).lb
         /\ domain_of(e, v).ub <= domain_of(d, v).ub

\* C34: between a save_state and the matching restore the lower bound of a
\* variable never decreases and its upper bound never increases; set_lb(v, k)
\* with k <= lb(v) and set_ub(v, k) with k >= ub(v) change no domain, no
\* literal value and push no event; a call that tightens pushes exactly one
\* event on the integer trail, which records the previous and the new bound.
C34_MonotoneDomains ==
    [][/\ panic = "" => SetBoundContract(dm, debug_assertions)
       /\ (panic' = "" /\ ret'.op \notin {"restore_last", "restore"}) => Monotone(dm, dm')]_vars


\* ------------------------------------------------- what propagation leaves
\* No timepoint is flagged for an update and the propagation queue is empty.
NothingPending(s) ==
    /\ \A n \in Nodes(s) : /\ ~s.distances[n + 1].forward_pending_update
                           /\ ~s.distances[n + 1].backward_pending_update
    /\ s.internal_propagate_queue = <<>>

\* C35: whenever propagate_all returns Consistent, no timepoint has its
\* forward_pending_update or backward_pending_update flag set and the internal
\* propagation queue is empty, also when an earlier propagation ended
\* Inconsistent and was undone with undo_to_last_backtrack_point.
C35_NothingPendingWhenConsistent ==
    Usable =>
      LET r == propagate_all(stn)
      IN (r.status = "Consistent" /\ r.panic = "") => NothingPending(r.stn)


\* ------------------------------------------- the theory and the model in lockstep
\* The solver owns a model with LockIVars integer variables and drives the
\* theory with it: bind reads model.bounds(ivar), propagate writes the updates
\* of a Consistent propagate_all to the model, and both are saved and restored
\* together.  After a Contradiction the solver restores before anything else.
LockIVars == 2
LockBound == 1
LockEdges == 1
LockBindings == 1
LockMaxSaved == 1

LockIVarIds == 0..(LockIVars - 1)
LockAtoms == {IAtom_new(NoVar, shift) : shift \in 0..MaxShift} \cup {IAtom_new(var, 0) : var \in LockIVarIds}

\* The model once the integer variables 0..(n - 1) were declared with the
\* domain [0, LockBound].
RECURSIVE ModelWithIVars(_)
ModelWithIVars(n) ==
    IF n = 0 THEN DiscreteModel_new
    ELSE new_discrete_var(ModelWithIVars(n - 1), 0, LockBound, "ivar").dm

\* model.bounds(ivar) for every variable of the model d.
Model_bounds(d) == [v \in LockIVarIds |-> <<domain_of(d, v).lb, domain_of(d, v).ub>>]

\* The loop over the updates of propagate: an update of a timepoint that has
\* a variable is written to the model.  Returns [dm, panic].
RECURSIVE write_updates(_, _, _, _)
write_updates(d, ivars, updates, dbg) ==
    IF updates = <<>> THEN [dm |-> d, panic |-> ""]
    ELSE LET update == Head(updates)
             w == IF ~RefMap_contains(ivars, update.tp) THEN [dm |-> d, panic |-> ""]
                  ELSE IF update.event = "NewLB"
                  THEN set_lb(d, RefMap_get(ivars, update.tp), update.value, dbg)
                  ELSE set_ub(d, RefMap_get(ivars, update.tp), update.value, dbg)
         IN IF w.panic # "" THEN w ELSE write_updates(w.dm, ivars, Tail(updates), dbg)

\* Theory::propagate with the model d behind the writer.  Returns [theory,
\* status, clause, dm, panic].
propagate_writing(th, d, marked, r, dbg) ==
    LET p == theory_propagated(th, r)
        w == IF r.panic = "" /\ r.status = "Consistent"
             THEN write_updates(d, th.ivars, exposed_updates(marked, r), dbg)
             ELSE [dm |-> d, panic |-> ""]
    IN [theory |-> p.theory, status |-> p.status, clause |-> p.clause, dm |-> w.dm,
        panic |-> IF p.panic # "" THEN p.panic ELSE w.panic]

propagate_from_marked(th, d, marked, dbg) == propagate_writing(th, d, marked, propagate_all(marked), dbg)

Theory_propagate_on(th, d, bool_events, dbg) ==
    propagate_from_marked(th, d, mark_events(th.stn, th.mapping, bool_events), dbg)

NotLock == <<stn, issued, debug_assertions, brancher, stats, enqueued, saved, Others>>

LockInit ==
    /\ NoBrancher
    /\ NoTheory
    /\ NoPlanner
    /\ ret = Ret("new", "ok", -1, <<>>, TRUE)
    /\ panic = ""
    /\ saved = <<>>
    /\ stn = IncSTN_new
    /\ issued = [edge |-> Edge_new(origin, origin, 0), id |-> None]
    /\ dm = ModelWithIVars(LockIVars)
    /\ debug_assertions = FALSE

\* The solver goes on only when nothing panicked, and after a Contradiction
\* it restores first.
LockRunning == panic = "" /\ ret.status # "Contradiction"

\* A call that returned r = [theory, dm, panic].
LockCall(op, r, status, level, explanation) ==
    /\ panic = ""
    /\ IF r.panic # ""
       THEN /\ panic' = r.panic
            /\ ret' = Ret(op, "panic", -1, <<>>, TRUE)
            /\ UNCHANGED <<theory, dm>>
       ELSE /\ theory' = r.theory
            /\ dm' = r.dm
            /\ ret' = Ret(op, status, level, explanation, TRUE)
            /\ UNCHANGED panic
    /\ UNCHANGED NotLock

LockBindReturned(r) == LockCall("bind", [theory |-> r.theory, dm |-> dm, panic |-> r.panic], r.result, -1, <<>>)

LockBind ==
    /\ LockRunning
    /\ NumUserPairs(theory.stn) < LockEdges
    /\ \E literal \in TheoryLits, a \in LockAtoms, b \in LockAtoms :
         LET r == Theory_bind(theory, literal, [fun |-> "Leq", a |-> a, b |-> b], Model_bounds(dm))
         IN /\ Cardinality(r.theory.mapping.literal) <= 2 * LockBindings
            /\ LockBindReturned(r)
    /\ UNCHANGED <<current_assignment, model_events>>

\* The solver makes true a literal that the theory has atoms for.
LockAssign ==
    \E lit \in TheoryLits :
        /\ LockRunning
        /\ atoms_of(theory.mapping, lit) # <<>>
        /\ current_assignment.values[lit.var] = {}
        /\ current_assignment' = Assignment_set(current_assignment, lit)
        /\ model_events' = Append(model_events, lit)
        /\ UNCHANGED <<theory, dm, ret, panic, NotLock>>

\* Another reasoner of the solver tightens a bound of a variable.
LockTighten ==
    \E v \in LockIVarIds, b \in 0..LockBound :
      \E r \in {set_lb(dm, v, b, FALSE), set_ub(dm, v, b, FALSE)} :
        /\ LockRunning
        /\ r.dm # dm
        /\ domain_of(r.dm, v).lb <= domain_of(r.dm, v).ub
        /\ dm' = r.dm
        /\ UNCHANGED <<theory, ret, panic, current_assignment, model_events, NotLock>>

LockPropagated(r) == LockCall("propagate", r, r.status, -1, r.clause)

LockPropagate ==
    /\ LockRunning
    /\ LockPropagated(Theory_propagate_on(theory, dm, model_events, FALSE))
    /\ model_events' = <<>>
    /\ UNCHANGED current_assignment

LockSaveReturned(r, d) ==
    /\ LockCall("save_state", [theory |-> r.theory, dm |-> d.dm, panic |-> r.panic], "ok", r.level, <<>>)
    /\ current_assignment' = IF r.panic = "" THEN Assignment_save_state(current_assignment)
                             ELSE current_assignment

LockSaveState ==
    /\ LockRunning
    /\ Theory_num_saved(theory) < LockMaxSaved
    /\ LockSaveReturned(Theory_save_state(theory), save_state(dm, FALSE))
    /\ UNCHANGED model_events

LockRestored(r, d, ca) ==
    /\ LockCall("restore_last", [theory |-> r.theory, dm |-> d.dm, panic |-> r.panic], "ok", -1, <<>>)
    /\ current_assignment' = IF r.panic = "" THEN ca ELSE current_assignment
    /\ model_events' = IF r.panic = "" THEN StillTrue(ca, model_events) ELSE model_events

LockRestoreLast ==
    /\ Theory_num_saved(theory) > 0
    /\ LockRestored(Theory_restore_last(theory), restore_last(dm, FALSE),
                    Assignment_restore_last(current_assignment))

LockNext ==
    \/ LockBind
    \/ LockAssign
    \/ LockTighten
    \/ LockPropagate
    \/ LockSaveState
    \/ LockRestoreLast

SpecLockstep == LockInit /\ [][LockNext]_vars

\* The bounds of the model d are at least as tight as those of the network
\* of th, for every variable whose timepoint is in the network.
BoundsAtLeastAsTight(th, d) ==
    \A x \in th.timepoints :
        x.v \in Nodes(th.stn) =>
            /\ domain_of(d, x.k).lb >= lb(th.stn, x.v)
            /\ domain_of(d, x.k).ub <= ub(th.stn, x.v)

\* C36: after propagate returns Consistent, and again after the model and
\* the theory were restored together, every integer variable that has a
\* timepoint (still in the network) has model bounds at least as tight as the
\* bounds of its timepoint: model lb >= stn lb and model ub <= stn ub.
C36_ModelAtLeastAsTight ==
    (panic = "" /\ ((ret.op = "propagate" /\ ret.status = "Consistent") \/ ret.op = "restore_last")) =>
        BoundsAtLeastAsTight(theory, dm)


\* ------------------------------------------------ the tables of the theory
\* The maps ivar -> timepoint and timepoint -> ivar of th are inverse of each
\* other.
MutualInverses(th) ==
    /\ \A x \in th.timepoints : [k |-> x.v, v |-> x.k] \in th.ivars
    /\ \A y \in th.ivars : [k |-> y.v, v |-> y.k] \in th.timepoints

\* Every timepoint of the tables and every edge id of the mapping is in the
\* network of th.
TablesPointIntoNetwork(th) ==
    /\ \A x \in th.timepoints : x.v \in Nodes(th.stn)
    /\ \A y \in th.ivars : y.k \in Nodes(th.stn)
    /\ \A z \in th.mapping.literal : z.k.base_id < Len(th.stn.constraints)
    /\ \A z \in th.mapping.atoms : \A i \in DOMAIN z.v : z.v[i].base_id < Len(th.stn.constraints)

\* C37: in every reachable state of the theory, restore_last of a level in
\* which bind created timepoints or edges included, the maps ivar -> timepoint
\* and timepoint -> ivar are mutual inverses and every timepoint and every
\* edge id that the tables or the literal/atom mapping refer to exists in the
\* network.
C37_TablesAgreeWithNetwork ==
    panic = "" => MutualInverses(theory) /\ TablesPointIntoNetwork(theory)


\* -------------------------------------------------- weights at the ends of i32
\* The network is built from weights and bounds at both ends of i32 and around
\* zero, in a build that checks overflow (debug_assertions) or not.
ArithNodes == 2
ArithEdges == 1
ExtremeValues == {W_MIN, W_MIN + 1, -1, 0, 1, W_MAX - 1, W_MAX}

NotArith == <<dm, brancher, stats, current_assignment, enqueued, theory, model_events, saved, Others>>

ArithInit ==
    /\ stn = IncSTN_new
    /\ ret = Ret("new", "ok", -1, <<>>, TRUE)
    /\ panic = ""
    /\ saved = <<>>
    /\ issued = [edge |-> Edge_new(origin, origin, 0), id |-> None, lb |-> 0]
    /\ dm = DiscreteModel_new
    /\ debug_assertions \in BOOLEAN
    /\ NoBrancher
    /\ NoTheory
    /\ NoPlanner

\* IncSTN::add_timepoint(l, u): -lb panics in a build that checks overflow
\* when lb is the least value.
ArithAddTimepoint ==
    /\ Usable
    /\ num_nodes(stn) < ArithNodes
    /\ \E l \in ExtremeValues, u \in ExtremeValues :
         /\ l <= u
         /\ Call(add_timepoint(stn, l, u), Ret("add_timepoint", "ok", -1, <<>>, TRUE),
                 IF debug_assertions /\ neg_overflows(l) THEN "attempt to negate with overflow" ELSE "")
         /\ issued' = [edge |-> Edge_new(origin, num_nodes(stn), u), id |-> None, lb |-> l]
    /\ UNCHANGED <<debug_assertions, NotArith>>

\* IncSTN::add_edge: Edge::negated panics in a build that checks overflow when
\* the weight is the least value.
ArithAddEdge ==
    /\ Usable
    /\ NumUserPairs(stn) < ArithEdges
    /\ \E source \in Nodes(stn), target \in Nodes(stn), weight \in ExtremeValues :
         LET r == add_inactive_constraint(stn, source, target, weight, FALSE)
         IN /\ Call(mark_active(r.stn, r.id), Ret("add_edge", "ok", -1, <<>>, r.dbg_ok),
                    IF debug_assertions /\ neg_overflows(weight) THEN "attempt to negate with overflow" ELSE "")
            /\ issued' = [edge |-> Edge_new(source, target, weight), id |-> r.id, lb |-> issued.lb]
    /\ UNCHANGED <<debug_assertions, NotArith>>

ArithPropagateAll ==
    /\ Usable
    /\ stn.pending_activations # <<>>
    /\ Propagated(propagate_all(stn))
    /\ UNCHANGED <<issued, debug_assertions, NotArith>>

ArithNext ==
    \/ ArithAddTimepoint
    \/ ArithAddEdge
    \/ ArithPropagateAll

SpecArith == ArithInit /\ [][ArithNext]_vars

\* The sum of a and b, saturated at the ends of i32, from the 16-bit halves
\* of a and b.
SaturatedSum(a, b) ==
    LET low == (a % Limb) + (b % Limb)
        high == (a \div Limb) + (b \div Limb) + (low \div Limb)
    IN IF high >= Limb \div 2 THEN W_MAX
       ELSE IF high < -(Limb \div 2) THEN W_MIN
       ELSE high * Limb + (low % Limb)

\* w is -x, or the greatest value when -x is beyond it.
IsSaturatedNeg(w, x) == w = IF x = W_MIN THEN W_MAX ELSE 0 - x

\* The edge of the lower bound of the timepoint tp in the network s.
LowerBoundEdge(s, tp) == Index(s.constraints, s.distances[tp + 1].backward_cause).edge

\* C38: the arithmetic of the network never wraps: a candidate distance is the
\* saturating sum of a distance and a weight, the two edges of a constraint
\* pair have weights w and -w-1, and the edge of the lower bound lb that
\* add_timepoint was given has the weight -lb (saturated when -lb is not
\* representable).
C38_ArithmeticNeverWraps ==
    panic = "" =>
        /\ \A a \in ExtremeValues, b \in ExtremeValues : saturating_add(a, b) = SaturatedSum(a, b)
        /\ \A i \in 1..Len(stn.constraints) :
               stn.constraints[i].negated.edge.weight = (-1) - stn.constraints[i].base.edge.weight
        /\ ret.op = "add_timepoint" =>
               IsSaturatedNeg(LowerBoundEdge(stn, num_nodes(stn) - 1).weight, issued.lb)


\* ------------------------------------------------------------------ has_edge
\* id.base_id is the index of a constraint pair stored in the network s.
IsStored(s, id) == 0 <= id.base_id /\ id.base_id < Len(s.constraints)

\* C39: has_edge(id) holds iff id.base_id is the index of a constraint pair
\* stored in the database; here for the id that the last add_edge or
\* add_inactive_edge returned, whose pair an undo may have removed since.
C39_HasEdgeIffStored ==
    (panic = "" /\ issued.id # None) => (has_edge(stn, issued.id) <=> IsStored(stn, issued.id))


\* ------------------------------------------------------------------ Mapping
\* not atom: AtomID::not keeps base_id and flips negated.
Atom_not(atom) == EdgeID_new(atom.base_id, ~atom.negated)

\* The atoms that the mapping m has a literal for, and the literals it has
\* atoms for.
BoundAtoms(m) == {x.k : x \in m.literal}
LitsWithAtoms(m) == {y.k : y \in m.atoms}

\* Each atom has one entry at most, in literal and in the list of each literal.
AtMostOneLiteral(m) ==
    /\ \A x1 \in m.literal, x2 \in m.literal : x1.k = x2.k => x1 = x2
    /\ \A y1 \in m.atoms, y2 \in m.atoms : y1.k = y2.k => y1 = y2
    /\ \A y \in m.atoms : \A i \in DOMAIN y.v, j \in DOMAIN y.v : y.v[i] = y.v[j] => i = j

\* literal_of(not atom) = not literal_of(atom) for every bound atom.
NegationsAgree(m) ==
    \A atom \in BoundAtoms(m) :
        Mapping_literal_of(m, Atom_not(atom)) = Lit_not(Mapping_literal_of(m, atom))

\* atom is in atoms_of(lit) iff literal_of(atom) = lit.
AtomsOfIsInverse(m) ==
    \A lit \in TheoryLits :
        {atoms_of(m, lit)[i] : i \in DOMAIN atoms_of(m, lit)} =
            {atom \in BoundAtoms(m) : Mapping_literal_of(m, atom) = lit}

\* What bind(lit, atom) does to the mapping m: nothing to an atom bound to
\* lit, a panic for an atom bound to another literal.
RebindContract(m, lit, atom) ==
    atom \in BoundAtoms(m) =>
        /\ Mapping_bind(m, lit, atom).mapping = m
        /\ Mapping_bind(m, lit, atom).panic # "" <=> Mapping_literal_of(m, atom) # lit

\* C40: in every reachable state of the Mapping of the theory each atom is
\* bound to one literal at most (binding it again to the same literal changes
\* nothing, to another literal fails), literal_of(not atom) is
\* not literal_of(atom) for every bound atom, atom is in atoms_of(lit) iff
\* literal_of(atom) = lit, and no atom is twice in atoms_of(lit).
C40_MappingIsConsistent ==
    panic = "" =>
        /\ AtMostOneLiteral(theory.mapping)
        /\ NegationsAgree(theory.mapping)
        /\ AtomsOfIsInverse(theory.mapping)
        /\ \A lit \in TheoryLits, atom \in BoundAtoms(theory.mapping) :
               RebindContract(theory.mapping, lit, atom)

\* Two atoms are bound, an atom and its negation, each to its literal.
C40_Witness ==
    /\ panic = ""
    /\ ret.op = "bind"
    /\ \E atom \in BoundAtoms(theory.mapping) :
         /\ Atom_not(atom) \in BoundAtoms(theory.mapping)
         /\ atoms_of(theory.mapping, Mapping_literal_of(theory.mapping, atom)) # <<>>

====
